---- MODULE Spec2Model ----
(***************************************************************************)
(* Verification model of the RAG_Core orchestration runtime                *)
(* (abcaxw/chatbotAI_VTC): the Supervisor classifier, the fan-out stage,   *)
(* the Decision Router, the Grader / Generator path and the responders.    *)
(*                                                                         *)
(* Conventions                                                             *)
(*  - a text is a sequence of words (TLA+ strings); Vietnamese words are   *)
(*    written without diacritics; a multi-word keyword of the source is    *)
(*    one word of the model; the substring test `kw in text` of the code   *)
(*    is the membership of the word kw in the text;                        *)
(*  - a Python dict is a TLA+ record holding exactly the keys the code     *)
(*    puts in it, and dict.get(k, d) is Get(r, k, d);                      *)
(*  - scores are integers, hundredths of the score of the code.            *)
(***************************************************************************)
EXTENDS Integers, Sequences, FiniteSets, TLC

VARIABLES
    cls,        \* SpecClassify: one call of SupervisorAgent.classify_request
    connected,  \* MilvusClient.connected, the process-wide connection flag
    req,        \* the request handed to RAGWorkflow.run / run_with_streaming
    state,      \* ChatbotState of the request
    pc,         \* position of the request in the workflow
    ran,        \* the workflow nodes executed for the request, in order
    obs,        \* what happened inside the nodes (reranker failures, ...)
    returned,   \* the dict returned to the caller
    fan,        \* SpecFanout: executor, futures and clock of the fan-out stage
    faqcall,    \* SpecFaq: one call of FAQAgent.process
    api,        \* SpecApi: one HTTP request to /chat or /stream-chat
    milvus,     \* SpecMilvus: the vector store and the last use of its client
    pool        \* SpecPool: the shared executor over successive requests

vars == <<cls, connected, req, state, pc, ran, obs, returned, fan, faqcall,
          api, milvus, pool>>

(***************************************************************************)
(* Python helpers                                                          *)
(***************************************************************************)
Get(r, k, d) == IF k \in DOMAIN r THEN r[k] ELSE d

Range(s) == {s[i] : i \in DOMAIN s}

\* str.lower() on the words of the model
LowerWord(w) ==
    CASE w = "Loi"  -> "loi"
      [] w = "Te"   -> "te"
      [] w = "Cach" -> "cach"
      [] OTHER      -> w

Lower(text) == [i \in DOMAIN text |-> LowerWord(text[i])]

\* str.upper() on the agent names an LLM reply can carry
Upper(w) ==
    CASE w = "faq"      -> "FAQ"
      [] w = "chatter"  -> "CHATTER"
      [] w = "Reporter" -> "REPORTER"
      [] w = "other"    -> "OTHER"
      [] w = "grader"   -> "GRADER"
      [] OTHER          -> w

\* `kw in text` for some kw of kws
ContainsAny(text, kws) == \E i \in DOMAIN text : text[i] \in kws

RECURSIVE CharLen(_)
\* len(text): the characters of the words and one blank between two words
CharLen(text) ==
    IF text = <<>> THEN 0
    ELSE IF Len(text) = 1 THEN Len(text[1])
    ELSE Len(text[1]) + 1 + CharLen(Tail(text))


\* the longest prefix of whole words of text within n characters: text[:n]
TruncChars(text, n) ==
    LET fit == {k \in 0..Len(text) : CharLen(SubSeq(text, 1, k)) <= n}
    IN  SubSeq(text, 1, CHOOSE k \in fit : \A j \in fit : j <= k)

(***************************************************************************)
(* The LLM client (models/llm_model.py).  A reply of the LLM service is    *)
(* [ok |-> TRUE, text |-> t], or [ok |-> FALSE, text |-> <<>>] when the    *)
(* call raises (service unreachable, timeout).                             *)
(***************************************************************************)
LLMDown == [ok |-> FALSE, text |-> <<>>]

\* f"Lỗi xử lý: {str(e)}"
FailText == <<"Loi", "xu", "ly:", "timeout">>

\* the mutant of invoke: a failure becomes the empty text
InvokeEmptyOnFailure(reply) == IF reply.ok THEN reply.text ELSE <<>>

\* LLMModel.invoke: never raises, a failure becomes the failure text
invoke(reply) == IF reply.ok THEN reply.text ELSE FailText

(***************************************************************************)
(* Vector-store liveness (database/milvus_client.py, tools/vector_search)  *)
(***************************************************************************)
\* the mutant of check_connection: probes again when the flag is down
CheckProbesAgain(flag, probeOk) ==
    IF probeOk THEN [live |-> TRUE, flag |-> TRUE]
    ELSE [live |-> FALSE, flag |-> FALSE]

\* MilvusClient.check_connection with the flag `flag`, the probe
\* utility.list_collections succeeding iff probeOk: the value returned and
\* the flag it leaves
check_connection(flag, probeOk) ==
    IF ~flag THEN [live |-> FALSE, flag |-> FALSE]
    ELSE IF probeOk THEN [live |-> TRUE, flag |-> TRUE]
    ELSE [live |-> FALSE, flag |-> FALSE]

\* the mutant of check_database_connection: trusts the flag, no probe
CheckFlagOnly(flag, probeOk) ==
    [connected |-> flag,
     message   |-> IF flag THEN "Ket noi binh thuong" ELSE "Mat ket noi co so du lieu"]

\* check_database_connection: the dict it returns (the keys the callers read)
check_database_connection(flag, probeOk) ==
    LET c == check_connection(flag, probeOk)
    IN  [connected |-> c.live,
         message   |-> IF c.live THEN "Ket noi binh thuong"
                       ELSE "Mat ket noi co so du lieu"]

(***************************************************************************)
(* ContextProcessor (utils/context_processor.py)                           *)
(***************************************************************************)
followup_keywords ==
    {"thu", "cai do", "no", "dieu do", "phan do", "tiep theo", "con", "them",
     "chi tiet", "giai thich", "phan tich", "lam ro", "vi du", "cu the",
     "so voi"}

pronouns == {"no", "cai do", "dieu do", "phan do"}

ordinals == {"thu 1", "thu 2", "thu 3", "dau tien", "thu hai", "thu ba"}

ShortQuestionWords == 10

_is_followup_question(question) ==
    LET question_norm == Lower(question)
        has_kw      == ContainsAny(question_norm, followup_keywords)
        has_pronoun == ContainsAny(question_norm, pronouns)
        has_ordinal == ContainsAny(question_norm, ordinals)
        is_short    == Len(question_norm) < ShortQuestionWords
    IN  has_kw \/ has_pronoun \/ has_ordinal \/ is_short

\* the content of the last message of `role`, "" (the empty text) if none
LastContent(history, role) ==
    LET idx == {i \in DOMAIN history : history[i].role = role}
    IN  IF idx = {} THEN <<>>
        ELSE history[CHOOSE i \in idx : \A j \in idx : j <= i].content

_extract_relevant_context(history) ==
    IF history = <<>> THEN <<>>
    ELSE TruncChars(LastContent(history, "assistant"), 500)

\* the words "1.", "2.", ... that open an item of a numbered list
ListMarkers == {"1.", "2.", "3.", "4."}

\* _extract_items_from_text on a text whose items are opened by a list
\* marker and are one word long: the items longer than 5 characters
_extract_items_from_text(text) ==
    LET at == {i \in DOMAIN text : text[i] \in ListMarkers /\ i < Len(text)
                                   /\ text[i + 1] \notin ListMarkers}
        kept == {i \in at : Len(text[i + 1]) > 5}
        Nth[n \in 0..Len(text)] ==
            IF n = 0 THEN <<>>
            ELSE IF n \in kept THEN Append(Nth[n - 1], text[n + 1])
            ELSE Nth[n - 1]
    IN  Nth[Len(text)]

\* the N of "thứ N" in the question, 0 if the question has none
OrdinalOf(question_lower) ==
    IF ContainsAny(question_lower, {"thu 1"}) THEN 1
    ELSE IF ContainsAny(question_lower, {"thu 2", "thu hai"}) THEN 2
    ELSE IF ContainsAny(question_lower, {"thu 3", "thu ba"}) THEN 3
    ELSE IF ContainsAny(question_lower, {"thu tu"}) THEN 4
    ELSE IF ContainsAny(question_lower, {"thu nam"}) THEN 1
    ELSE 0

_manual_contextualize(question, history) ==
    LET question_lower     == Lower(question)
        last_assistant_msg == LastContent(history, "assistant")
        last_user_msg      == LastContent(history, "user")
        ordinal            == OrdinalOf(question_lower)
        items              == _extract_items_from_text(last_assistant_msg)
        context == IF last_user_msg # <<>> THEN last_user_msg
                   ELSE TruncChars(last_assistant_msg, 80)
    IN  IF last_assistant_msg = <<>> THEN question
        ELSE IF ordinal > 0 /\ items # <<>> /\ ordinal - 1 < Len(items)
        THEN <<"Phan", "tich", "chi", "tiet", "ve", items[ordinal], "thuoc">>
             \o last_user_msg
        ELSE question \o <<"(Lien", "quan", "den:">> \o context \o <<")">>

NotFollowup(current_question) ==
    [original_question       |-> current_question,
     contextualized_question |-> current_question,
     is_followup             |-> FALSE,
     relevant_context        |-> <<>>]

MinRewriteChars == 5

\* the mutant of extract_context_from_history: an empty or short rewrite
\* gives the question back as no follow-up
ExtractNoManual(history, current_question, rewrite) ==
    IF history = <<>> THEN [ret |-> NotFollowup(current_question), calls |-> <<>>]
    ELSE IF ~_is_followup_question(current_question)
    THEN [ret |-> NotFollowup(current_question), calls |-> <<>>]
    ELSE
        LET answer == invoke(rewrite)
        IN  [ret |-> IF answer = <<>> \/ CharLen(answer) < MinRewriteChars
                     THEN NotFollowup(current_question)
                     ELSE [original_question       |-> current_question,
                           contextualized_question |-> answer,
                           is_followup             |-> TRUE,
                           relevant_context        |->
                               _extract_relevant_context(history)],
             calls |-> <<"rewrite">>]

\* extract_context_from_history; `rewrite` is the reply of the LLM service
\* to the rewriting prompt.  calls: the LLM calls made.
extract_context_from_history(history, current_question, rewrite) ==
    IF history = <<>> THEN [ret |-> NotFollowup(current_question), calls |-> <<>>]
    ELSE IF ~_is_followup_question(current_question)
    THEN [ret |-> NotFollowup(current_question), calls |-> <<>>]
    ELSE
        LET answer == invoke(rewrite)
            contextualized_question ==
                IF answer = <<>> \/ CharLen(answer) < MinRewriteChars
                THEN _manual_contextualize(current_question, history)
                ELSE answer
        IN  [ret |-> [original_question       |-> current_question,
                      contextualized_question |-> contextualized_question,
                      is_followup             |-> TRUE,
                      relevant_context        |-> _extract_relevant_context(history)],
             calls |-> <<"rewrite">>]

(***************************************************************************)
(* SupervisorAgent (agents/supervisor.py).  The LLM's classification reply *)
(* is a text whose words are prose, "{", "}", or members "agent:X",        *)
(* "summary:S" of a JSON object; any other word between braces makes the   *)
(* object invalid JSON.                                                    *)
(***************************************************************************)
valid_agents == {"FAQ", "CHATTER", "REPORTER", "OTHER"}

chatter_keywords ==
    {"te", "kem", "toi", "khong hai long", "gian", "phan doi", "khieu nai",
     "that vong", "tuc gian"}

reporter_keywords ==
    {"loi", "khong hoat dong", "bi loi", "khong ket noi",
     "khong truy cap duoc", "hong", "khong phan hoi"}

faq_keywords ==
    {"la gi", "nhu the nao", "sao", "tai sao", "co phai", "gio lam viec",
     "lien he", "huong dan", "cach", "the nao"}

\* the mutant of _fallback_classify: every unknown label becomes FAQ
FallbackAlwaysFAQ(question) == "FAQ"

_fallback_classify(question) ==
    LET question_lower == Lower(question)
    IN  IF ContainsAny(question_lower, chatter_keywords) THEN "CHATTER"
        ELSE IF ContainsAny(question_lower, reporter_keywords) THEN "REPORTER"
        ELSE IF ContainsAny(question_lower, faq_keywords) THEN "FAQ"
        ELSE "FAQ"

\* the value of a JSON member "agent:X"; None is JSON null, a number is not
\* a string either
JsonNone == "<None>"

JsonNumber == "<number>"

AgentMembers ==
    {"agent:FAQ", "agent:CHATTER", "agent:REPORTER", "agent:OTHER",
     "agent:faq", "agent:other", "agent:grader", "agent:", "agent:null",
     "agent:7"}

AgentValue(member) ==
    CASE member = "agent:FAQ"      -> "FAQ"
      [] member = "agent:CHATTER"  -> "CHATTER"
      [] member = "agent:REPORTER" -> "REPORTER"
      [] member = "agent:OTHER"    -> "OTHER"
      [] member = "agent:faq"      -> "faq"
      [] member = "agent:other"    -> "other"
      [] member = "agent:grader"   -> "grader"
      [] member = "agent:"         -> ""
      [] member = "agent:null"     -> JsonNone
      [] member = "agent:7"        -> JsonNumber

SummaryMembers == {"summary:wifi"}

ReasoningMembers == {"reasoning:r"}

JsonMembers == AgentMembers \cup SummaryMembers \cup ReasoningMembers

ParseFailed == [agent |-> "FAQ", context_summary |-> "", reasoning |-> "Parse failed"]

ParseError == [agent |-> "FAQ", context_summary |-> "", reasoning |-> "Parse error"]

\* re.search(r'\{[^}]+\}', response): the first "{" followed by at least
\* one word other than "}" and then by a "}"; <<>> if there is none, else
\* <<i, j>>, the places of the two braces
JsonMatch(response) ==
    LET opens == {i \in DOMAIN response :
                    /\ response[i] = "{"
                    /\ i + 1 \in DOMAIN response
                    /\ response[i + 1] # "}"
                    /\ \E j \in DOMAIN response : j > i + 1 /\ response[j] = "}"}
    IN  IF opens = {} THEN <<>>
        ELSE LET i == CHOOSE a \in opens : \A b \in opens : a <= b
                 closes == {j \in DOMAIN response : j > i + 1 /\ response[j] = "}"}
             IN  <<i, CHOOSE a \in closes : \A b \in closes : a <= b>>

\* json.loads of the members between the braces: the dict, with the last
\* value of a repeated key
JsonLoads(members) ==
    LET Last(S) == LET idx == {i \in DOMAIN members : members[i] \in S}
                   IN  members[CHOOSE i \in idx : \A j \in idx : j <= i]
        keys == {k \in {"agent", "context_summary", "reasoning"} :
                    \/ k = "agent" /\ ContainsAny(members, AgentMembers)
                    \/ k = "context_summary" /\ ContainsAny(members, SummaryMembers)
                    \/ k = "reasoning" /\ ContainsAny(members, ReasoningMembers)}
    IN  [k \in keys |->
            CASE k = "agent"           -> AgentValue(Last(AgentMembers))
              [] k = "context_summary" -> "wifi"
              [] k = "reasoning"       -> "r"]

\* the mutant of _parse_classification_response: a reply that cannot be
\* parsed gives a dict without label
ParseFailureNoLabel(response) ==
    LET m == JsonMatch(response)
    IN  IF m = <<>> THEN [context_summary |-> "", reasoning |-> "Parse failed"]
        ELSE LET members == SubSeq(response, m[1] + 1, m[2] - 1)
             IN  IF \A i \in DOMAIN members : members[i] \in JsonMembers
                 THEN JsonLoads(members)
                 ELSE [context_summary |-> "", reasoning |-> "Parse error"]

_parse_classification_response(response) ==
    LET m == JsonMatch(response)
    IN  IF m = <<>> THEN ParseFailed
        ELSE LET members == SubSeq(response, m[1] + 1, m[2] - 1)
             IN  IF \A i \in DOMAIN members : members[i] \in JsonMembers
                 THEN JsonLoads(members)
                 ELSE ParseError

\* classify_request: the probe of the vector store sees the connection flag
\* `flag` and succeeds iff probeOk; rewrite and reply are the replies of the
\* LLM service to the rewriting and to the classification prompt.
\* ret: the dict returned; calls: the LLM calls made, in order.
classify_request(question, history, flag, probeOk, rewrite, reply) ==
    LET db_status == check_database_connection(flag, probeOk)
        ctx       == extract_context_from_history(history, question, rewrite)
        unclear   == ContainsAny(ctx.ret.contextualized_question, {"[can lam ro]"})
        contextualized_question ==
            IF unclear THEN question ELSE ctx.ret.contextualized_question
        is_followup == IF unclear THEN FALSE ELSE ctx.ret.is_followup
        response       == invoke(reply)
        classification == _parse_classification_response(response)
        raw_agent      == Get(classification, "agent", "")
        agent_choice   == Upper(raw_agent)
    IN  IF ~db_status.connected
        THEN [ret |-> [agent                   |-> "REPORTER",
                       contextualized_question |-> question,
                       context_summary         |-> "He thong mat ket noi",
                       is_followup             |-> FALSE],
              calls |-> <<>>]
        ELSE IF raw_agent \in {JsonNone, JsonNumber}
        \* .upper() of a value that is no string raises: the except branch
        THEN [ret |-> [agent                   |-> _fallback_classify(question),
                       contextualized_question |-> question,
                       context_summary         |-> "",
                       is_followup             |-> FALSE,
                       reasoning               |-> "Fallback due to error"],
              calls |-> ctx.calls \o <<"classify">>]
        ELSE [ret |-> [agent |-> IF agent_choice \in valid_agents THEN agent_choice
                                 ELSE _fallback_classify(contextualized_question),
                       contextualized_question |-> contextualized_question,
                       context_summary |-> Get(classification, "context_summary", ""),
                       is_followup     |-> is_followup,
                       reasoning       |-> Get(classification, "reasoning", "")],
              calls |-> ctx.calls \o <<"classify">>]

(***************************************************************************)
(* Cross-encoder reranking and vector search (tools/vector_search.py).     *)
(* A call of a tool gives [raised |-> TRUE] or [raised |-> FALSE, ret].    *)
(***************************************************************************)
Raised == [raised |-> TRUE, ret |-> <<>>]

Returns(v) == [raised |-> FALSE, ret |-> v]

\* `"error" in str(results)`: the word error in a text field of a result
StrHasError(results) ==
    \E i \in DOMAIN results :
        \E k \in DOMAIN results[i] \cap {"description", "question", "answer"} :
            ContainsAny(results[i][k], {"error"})

\* list.sort(key = rerank_score, reverse = True): stable, by insertion
RECURSIVE SortByRerank(_)
SortByRerank(items) ==
    IF items = <<>> THEN <<>>
    ELSE LET rest == SortByRerank(Tail(items))
             x    == Head(items)
             \* x goes before the first element of rest that is not greater
             ahead == {i \in DOMAIN rest : rest[i].rerank_score > x.rerank_score}
             k     == IF ahead = {} THEN 0
                      ELSE CHOOSE a \in ahead : \A b \in ahead : b <= a
         IN  SubSeq(rest, 1, k) \o <<x>> \o SubSeq(rest, k + 1, Len(rest))

\* rerank_documents: loaded iff reranker_model is not None, predictOk iff
\* reranker_model.predict returns, scores[i] the score it gives documents[i]
rerank_documents(documents, loaded, predictOk, scores) ==
    IF documents = <<>> THEN Returns(<<>>)
    ELSE IF ~loaded \/ ~predictOk THEN Raised
    ELSE Returns(SortByRerank(
            [i \in DOMAIN documents |->
                [document_id      |-> documents[i].document_id,
                 description      |-> documents[i].description,
                 similarity_score |-> documents[i].similarity_score,
                 rerank_score     |-> scores[i],
                 reranker_model   |-> "BAAI/bge-reranker-base"]]))

\* search_documents / search_faq: the vector store is reached iff live and
\* the search succeeds iff searchOk; results is what the store holds
vector_search(live, searchOk, results) ==
    IF ~live \/ ~searchOk THEN Raised ELSE Returns(results)

(***************************************************************************)
(* RetrieverAgent.process (agents/retriever_agent.py)                      *)
(***************************************************************************)
SIMILARITY_THRESHOLD == 20

\* the mutant of RetrieverProcess: no test for the word error
RetrieverNoErrorTest(search) ==
    IF search.raised
    THEN [status |-> "ERROR", documents |-> <<>>, next_agent |-> "REPORTER"]
    ELSE IF search.ret = <<>>
    THEN [status |-> "ERROR", documents |-> <<>>, next_agent |-> "NOT_ENOUGH_INFO"]
    ELSE LET Relevant(doc) == doc.similarity_score > SIMILARITY_THRESHOLD
             relevant_docs == SelectSeq(search.ret, Relevant)
         IN  IF relevant_docs = <<>>
             THEN [status |-> "NOT_FOUND", documents |-> search.ret,
                   next_agent |-> "GRADER"]
             ELSE [status |-> "SUCCESS", documents |-> relevant_docs,
                   next_agent |-> "GRADER"]

\* RetrieverAgent.process; search is the outcome of search_documents.invoke
RetrieverProcess(search) ==
    IF search.raised
    THEN [status |-> "ERROR", documents |-> <<>>, next_agent |-> "REPORTER"]
    ELSE IF search.ret = <<>> \/ StrHasError(search.ret)
    THEN [status |-> "ERROR", documents |-> <<>>, next_agent |-> "NOT_ENOUGH_INFO"]
    ELSE LET Relevant(doc) == doc.similarity_score > SIMILARITY_THRESHOLD
             relevant_docs == SelectSeq(search.ret, Relevant)
         IN  IF relevant_docs = <<>>
             THEN [status |-> "NOT_FOUND", documents |-> search.ret,
                   next_agent |-> "GRADER"]
             ELSE [status |-> "SUCCESS", documents |-> relevant_docs,
                   next_agent |-> "GRADER"]

(***************************************************************************)
(* GraderAgent (agents/grader_agent.py)                                    *)
(***************************************************************************)
reranking_threshold == 60

Insufficient(status) ==
    [status |-> status, qualified_documents |-> <<>>, references |-> <<>>,
     next_agent |-> "NOT_ENOUGH_INFO"]

_fallback_grading(documents) ==
    LET Qualified(doc) == Get(doc, "similarity_score", 0) >= SIMILARITY_THRESHOLD
        qualified_docs == SelectSeq(documents, Qualified)
    IN  IF qualified_docs # <<>>
        THEN [status |-> "SUFFICIENT",
              qualified_documents |-> qualified_docs,
              references |->
                  [i \in DOMAIN qualified_docs |->
                      [document_id      |-> qualified_docs[i].document_id,
                       type             |-> "DOCUMENT",
                       similarity_score |-> qualified_docs[i].similarity_score]],
              next_agent |-> "GENERATOR"]
        ELSE Insufficient("INSUFFICIENT")

\* GraderAgent.process; reranked is the outcome of rerank_documents.invoke
GraderProcess(documents, reranked) ==
    IF documents = <<>> THEN Insufficient("INSUFFICIENT")
    ELSE IF reranked.raised THEN Insufficient("ERROR")
    ELSE IF reranked.ret = <<>> \/ StrHasError(reranked.ret)
    THEN _fallback_grading(documents)
    ELSE LET Qualified(doc) ==
                 /\ Get(doc, "rerank_score", 0) >= reranking_threshold
                 /\ Get(doc, "similarity_score", 0) >= SIMILARITY_THRESHOLD
             qualified_docs == SelectSeq(reranked.ret, Qualified)
         IN  IF qualified_docs # <<>>
             THEN [status |-> "SUFFICIENT",
                   qualified_documents |-> qualified_docs,
                   references |->
                       [i \in DOMAIN qualified_docs |->
                           [document_id      |-> qualified_docs[i].document_id,
                            type             |-> "DOCUMENT",
                            rerank_score     |-> qualified_docs[i].rerank_score,
                            similarity_score |-> qualified_docs[i].similarity_score]],
                   next_agent |-> "GENERATOR"]
             ELSE Insufficient("INSUFFICIENT")

(***************************************************************************)
(* FAQ reranking and FAQAgent (tools/vector_search.py, agents/faq_agent.py)*)
(* The fused rerank score of a FAQ entry is in ten-thousandths.            *)
(***************************************************************************)
FAQ_CONSISTENCY_THRESHOLD == 60

\* weighted average of the three variant scores <<question_only,
\* question_answer, answer_only>>, times 1.1 when all three are high
FinalScore(variant_scores) ==
    LET final_score == 50 * variant_scores[1] + 30 * variant_scores[2]
                         + 20 * variant_scores[3]
    IN  IF \A v \in 1..3 : variant_scores[v] > FAQ_CONSISTENCY_THRESHOLD
        THEN (final_score * 11) \div 10
        ELSE final_score

\* rerank_faq: scores[i] the three variant scores predict gives faq_results[i]
rerank_faq(faq_results, loaded, predictOk, scores) ==
    IF faq_results = <<>> THEN Returns(<<>>)
    ELSE IF ~loaded THEN Raised
    ELSE LET valid == {i \in DOMAIN faq_results : faq_results[i].question # <<>>}
         IN  IF valid = {} THEN Returns(<<>>)
             ELSE IF ~predictOk THEN Raised
             ELSE LET scored ==
                          [i \in DOMAIN faq_results |->
                              [faq_id           |-> faq_results[i].faq_id,
                               question         |-> faq_results[i].question,
                               answer           |-> faq_results[i].answer,
                               similarity_score |-> faq_results[i].similarity_score,
                               rerank_score     |-> FinalScore(scores[i]),
                               rerank_details   |-> scores[i],
                               reranker_model   |-> "BAAI/bge-reranker-base"]]
                      Valid(faq) == faq.question # <<>>
                  IN  Returns(SortByRerank(SelectSeq(scored, Valid)))

vector_threshold == 50

rerank_threshold == 6000

direct_answer_threshold == 7500

force_similarity_threshold == 85

MinAnswerChars == 10

MaxDescriptionChars == 500

_route_to_retriever ==
    [status |-> "NOT_FOUND", answer |-> <<>>, references |-> <<>>,
     next_agent |-> "RETRIEVER"]

FaqAnswer(best_faq, answer, mode) ==
    [status |-> "SUCCESS", answer |-> answer, mode |-> mode,
     references |->
         <<[document_id      |-> best_faq.faq_id,
            type             |-> "FAQ",
            description      |-> TruncChars(best_faq.question, MaxDescriptionChars),
            rerank_score     |-> best_faq.rerank_score,
            similarity_score |-> best_faq.similarity_score]>>,
     next_agent |-> "end"]

\* the mutant of FAQProcess: the stored answer of the best entry is given
\* whatever its scores
FAQProcessNoThreshold(search, loaded, predictOk, scores, reply) ==
    LET Gives(dict) ==
            [raised |-> FALSE, ret |-> dict, reranker_failed |-> FALSE]
    IN
    IF search.raised
    THEN [raised |-> TRUE, ret |-> <<>>, reranker_failed |-> FALSE]
    ELSE IF search.ret = <<>> \/ StrHasError(search.ret)
    THEN Gives(_route_to_retriever)
    ELSE LET Passes(faq) == Get(faq, "similarity_score", 0) >= vector_threshold
             filtered_faqs == SelectSeq(search.ret, Passes)
             kept == SelectSeq([i \in DOMAIN search.ret |-> i],
                               LAMBDA i : Passes(search.ret[i]))
             reranked == rerank_faq(filtered_faqs, loaded, predictOk,
                                    [j \in DOMAIN kept |-> scores[kept[j]]])
         IN  IF filtered_faqs = <<>> THEN Gives(_route_to_retriever)
             ELSE IF reranked.raised
             THEN [raised |-> TRUE, ret |-> <<>>, reranker_failed |-> TRUE]
             ELSE IF reranked.ret = <<>>
             THEN [raised |-> TRUE, ret |-> <<>>, reranker_failed |-> FALSE]
             ELSE Gives(FaqAnswer(reranked.ret[1], reranked.ret[1].answer,
                                  "direct"))

\* FAQAgent.process; search is the outcome of search_faq.invoke; the result
\* is the returned dict, or raised with reranker_failed telling whether it
\* was rerank_faq that raised
FAQProcess(search, loaded, predictOk, scores, reply) ==
    LET Fails(by_reranker) ==
            [raised |-> TRUE, ret |-> <<>>, reranker_failed |-> by_reranker]
        Gives(dict) ==
            [raised |-> FALSE, ret |-> dict, reranker_failed |-> FALSE]
    IN
    IF search.raised THEN Fails(FALSE)
    ELSE IF search.ret = <<>> \/ StrHasError(search.ret)
    THEN Gives(_route_to_retriever)
    ELSE LET Passes(faq) == Get(faq, "similarity_score", 0) >= vector_threshold
             filtered_faqs == SelectSeq(search.ret, Passes)
             \* scores of the entries that passed, in their order
             kept == SelectSeq([i \in DOMAIN search.ret |-> i],
                               LAMBDA i : Passes(search.ret[i]))
             reranked == rerank_faq(filtered_faqs, loaded, predictOk,
                                    [j \in DOMAIN kept |-> scores[kept[j]]])
         IN  IF filtered_faqs = <<>> THEN Gives(_route_to_retriever)
             ELSE IF reranked.raised THEN Fails(TRUE)
             ELSE IF reranked.ret = <<>> THEN Fails(FALSE)
             ELSE LET best_faq == reranked.ret[1]
                      response == invoke(reply)
                  IN  IF ~(best_faq.similarity_score >= force_similarity_threshold)
                      THEN Gives(_route_to_retriever)
                      ELSE IF \/ best_faq.rerank_score >= direct_answer_threshold
                              \/ best_faq.similarity_score >= force_similarity_threshold
                      THEN Gives(FaqAnswer(best_faq, best_faq.answer, "direct"))
                      ELSE IF ContainsAny(response, {"NOT_FOUND"})
                      THEN Gives(_route_to_retriever)
                      ELSE IF CharLen(response) < MinAnswerChars
                      THEN Gives(_route_to_retriever)
                      ELSE Gives(FaqAnswer(best_faq, response, "llm"))

(***************************************************************************)
(* GeneratorAgent (agents/generator_agent.py)                              *)
(***************************************************************************)
\* the mutant of _deduplicate_references: every reference is kept
KeepAllReferences(references) == references

RECURSIVE _deduplicate_references(_)
\* keeps the first reference of every non-empty document_id
_deduplicate_references(references) ==
    IF references = <<>> THEN <<>>
    ELSE LET n      == Len(references)
             unique == _deduplicate_references(SubSeq(references, 1, n - 1))
             doc_id == Get(references[n], "document_id", "")
         IN  IF doc_id # "" /\ \A i \in DOMAIN unique : unique[i].document_id # doc_id
             THEN Append(unique, references[n])
             ELSE unique

GeneratorFallback == <<"Toi", "da", "tim", "thay", "thong", "tin", "lien", "quan">>

\* the methods the class GeneratorAgent defines
GeneratorAgentMethods ==
    {"__init__", "_deduplicate_references", "_format_documents",
     "_format_history", "_extract_context_summary", "process"}

\* GeneratorAgent.process
GeneratorProcess(documents, references, reply) ==
    IF documents = <<>>
    THEN [status |-> "ERROR",
          answer |-> <<"Khong", "co", "tai", "lieu", "de", "tao", "cau", "tra", "loi">>,
          references |-> <<>>, next_agent |-> "end"]
    ELSE LET answer == invoke(reply)
         IN  [status |-> "SUCCESS",
              answer |-> IF CharLen(answer) < MinAnswerChars
                         THEN GeneratorFallback ELSE answer,
              references |-> _deduplicate_references(references),
              next_agent |-> "end"]

(***************************************************************************)
(* The responders (agents/not_enough_info_agent.py, chatter_agent.py,      *)
(* reporter_agent.py, other_agent.py)                                      *)
(***************************************************************************)
NotEnoughInfoProcess(reply) ==
    [status |-> "SUCCESS", answer |-> invoke(reply),
     references |-> <<[document_id |-> "llm_knowledge", type |-> "GENERAL_KNOWLEDGE"]>>,
     next_agent |-> "end"]

ChatterFallback == <<"Toi", "rat", "hieu", "cam", "xuc", "cua", "ban">>

\* ChatterAgent.process; "\n".join(history) raises TypeError when the
\* history holds message dicts, which the except branch answers
ChatterProcess(history, reply) ==
    IF history # <<>>
    THEN [status |-> "ERROR",
          answer |-> <<"Toi", "hieu", "ban", "dang", "khong", "hai", "long">>,
          references |-> <<>>, next_agent |-> "end"]
    ELSE LET answer == invoke(reply)
         IN  [status |-> "SUCCESS",
              answer |-> IF CharLen(answer) < MinAnswerChars
                         THEN ChatterFallback ELSE answer,
              references |-> <<[document_id |-> "support_contact", type |-> "SUPPORT"]>>,
              next_agent |-> "end"]

\* ReporterAgent.process; db_status is check_database_connection.invoke({})
ReporterProcess(db_status) ==
    [status |-> "SUCCESS",
     answer |-> IF Get(db_status, "connected", FALSE)
                THEN <<"He", "thong", "dang", "hoat", "dong", "binh", "thuong">>
                ELSE <<"THONG", "BAO", "BAO", "TRI", "HE", "THONG">>,
     references |-> <<[document_id |-> "system_status", type |-> "SYSTEM"]>>,
     next_agent |-> "end"]

OtherFallback == <<"Cam", "on", "ban", "da", "lien", "he">>

OtherProcess(reply) ==
    LET answer == invoke(reply)
    IN  [status |-> "SUCCESS",
         answer |-> IF CharLen(answer) < MinAnswerChars
                    THEN OtherFallback ELSE answer,
         references |-> <<>>, next_agent |-> "end"]

(***************************************************************************)
(* Inputs                                                                  *)
(***************************************************************************)
MaxQuestionWords == 2

QuestionWords == {"wifi", "te", "Loi", "thu"}

\* nine words that are no keyword of any list
Filler == <<"x1", "x2", "x3", "x4", "x5", "x6", "x7", "x8", "x9">>

ShortQuestions == UNION {[1..k -> QuestionWords] : k \in 1..MaxQuestionWords}

\* questions of ten words and more
LongQuestions == {q \o Filler : q \in ShortQuestions}

Questions == ShortQuestions \cup LongQuestions

UserTurn == [role |-> "user", content |-> <<"khung", "nang", "luc", "so">>]

AssistantTurn ==
    [role |-> "assistant",
     content |-> <<"co", "1.", "thongtin", "2.", "giaotiep", "3.", "antoan">>]

Histories == {<<>>, <<UserTurn>>, <<UserTurn, AssistantTurn>>}

Said(text) == [ok |-> TRUE, text |-> text]

RewriteReplies ==
    {LLMDown, Said(<<>>), Said(<<"ok">>), Said(<<"wifi", "[can lam ro]">>),
     Said(<<"cach", "dung", "wifi">>), Said(<<"wifi", "te", "qua">>)}

ClassifyReplies ==
    {LLMDown,
     Said(<<"{", "agent:FAQ", "}">>),
     Said(<<"{", "summary:wifi", "agent:CHATTER", "reasoning:r", "}">>),
     Said(<<"{", "agent:REPORTER", "}">>),
     Said(<<"Day", "la:", "{", "agent:OTHER", "reasoning:r", "}", "het">>),
     Said(<<"{", "agent:faq", "}">>),
     Said(<<"{", "agent:grader", "summary:wifi", "}">>),
     Said(<<"{", "agent:", "}">>),
     Said(<<"{", "summary:wifi", "}">>),
     Said(<<"{", "agent:null", "}">>),
     Said(<<"{", "agent:7", "}">>),
     Said(<<"toi", "chon", "FAQ">>),
     Said(<<"{", "}">>),
     Said(<<"{", "agent:OTHER", "oops", "}">>)}

(***************************************************************************)
(* SpecClassify: classify_request applied to every input                   *)
(***************************************************************************)
NoDict == [k \in {} |-> ""]

IdleCls ==
    [pc |-> "idle", question |-> <<>>, history |-> <<>>, flag |-> TRUE,
     probeOk |-> TRUE, rewrite |-> LLMDown, reply |-> LLMDown,
     ret |-> NoDict, calls |-> <<>>]

IdleRequest ==
    /\ req = [mode |-> "none", question |-> <<>>, history |-> <<>>]
    /\ state = NoDict
    /\ pc = "idle"
    /\ ran = <<>>
    /\ obs = {}
    /\ returned = NoDict

IdleFan == fan = NoDict

IdleFaq == faqcall = NoDict

IdleApi == api = NoDict
IdleMilvus == milvus = NoDict
IdlePool == pool = NoDict

InitClassify ==
    /\ \E q \in Questions, h \in Histories, f \in BOOLEAN, p \in BOOLEAN,
          rw \in RewriteReplies, rp \in ClassifyReplies :
          /\ cls = [pc |-> "call", question |-> q, history |-> h, flag |-> f,
                    probeOk |-> p, rewrite |-> rw, reply |-> rp,
                    ret |-> NoDict, calls |-> <<>>]
          /\ connected = f
    /\ IdleRequest
    /\ IdleFan
    /\ IdleFaq
    /\ IdleApi
    /\ IdleMilvus
    /\ IdlePool

ClassifyRequest ==
    /\ cls.pc = "call"
    /\ LET r == classify_request(cls.question, cls.history, connected,
                                 cls.probeOk, cls.rewrite, cls.reply)
       IN  cls' = [cls EXCEPT !.pc = "returned", !.ret = r.ret, !.calls = r.calls]
    /\ connected' = check_connection(connected, cls.probeOk).flag
    /\ UNCHANGED <<req, state, pc, ran, obs, returned, fan, faqcall, api, milvus, pool>>

NextClassify == ClassifyRequest

SpecClassify == InitClassify /\ [][NextClassify]_vars

\* the vector-store probe of the call reported live
ProbeLive == cls.flag /\ cls.probeOk

\* the label of the JSON object of the LLM's reply: <<>> if the reply has no
\* JSON object, <<"">> if the object has no label, else <<label>>
ReplyLabel ==
    LET text == invoke(cls.reply)
        m    == JsonMatch(text)
        members == SubSeq(text, m[1] + 1, m[2] - 1)
        labels  == {i \in DOMAIN members : members[i] \in AgentMembers}
    IN  IF m = <<>> \/ \E i \in DOMAIN members : members[i] \notin JsonMembers
        THEN <<>>
        ELSE IF labels = {} THEN <<"">>
        ELSE <<AgentValue(members[CHOOSE i \in labels : \A j \in labels : j <= i])>>

\* the reply carries a JSON object whose label, upper-cased, is none of the
\* four labels, or that has no label
UnknownLabel == ReplyLabel # <<>> /\ Upper(ReplyLabel[1]) \notin valid_agents

\* the label the keyword lists give a text
KeywordLabel(text) ==
    IF \E i \in DOMAIN text : LowerWord(text[i]) \in chatter_keywords THEN "CHATTER"
    ELSE IF \E i \in DOMAIN text : LowerWord(text[i]) \in reporter_keywords
    THEN "REPORTER"
    ELSE "FAQ"

\* C9 (as claimed): the label returned is one of the four labels, and it is
\* FAQ whenever the LLM's reply carries a label outside the set or no label.
C9_UnknownLabelGivesFAQ ==
    cls.pc = "returned" =>
        /\ cls.ret.agent \in valid_agents
        /\ (ProbeLive /\ (UnknownLabel \/ ReplyLabel = <<>>)) => cls.ret.agent = "FAQ"

\* C9 (amended): the label returned is one of the four labels; when the
\* reply's JSON object carries an unknown label or none, the label is the one
\* the keyword lists give the contextualized question (the original question
\* when the label is no string): CHATTER, else REPORTER, else FAQ; when the
\* reply has no JSON object the label is FAQ.
C9_LabelValidKeywordFallback ==
    cls.pc = "returned" =>
        /\ cls.ret.agent \in valid_agents
        /\ (ProbeLive /\ UnknownLabel) =>
              /\ cls.ret.agent = KeywordLabel(cls.ret.contextualized_question)
              /\ ReplyLabel[1] \in {JsonNone, JsonNumber} =>
                    cls.ret.contextualized_question = cls.question
        /\ (ProbeLive /\ ReplyLabel = <<>>) => cls.ret.agent = "FAQ"

\* an unknown label on a question with a negative-affect word: CHATTER
C9_Witness ==
    /\ cls.pc = "returned"
    /\ ProbeLive
    /\ UnknownLabel
    /\ ReplyLabel = <<"grader">>
    /\ cls.ret.agent = "CHATTER"

\* C10: when the probe reports not-live, classify_request returns REPORTER
\* with the original question, is_followup false, and calls no LLM (neither
\* the rewriter nor the classifier).
C10_NotLiveGivesReporter ==
    (cls.pc = "returned" /\ ~ProbeLive) =>
        /\ cls.ret.agent = "REPORTER"
        /\ cls.ret.contextualized_question = cls.question
        /\ cls.ret.is_followup = FALSE
        /\ cls.calls = <<>>

\* a follow-up question with history and a working LLM, the probe failing
C10_Witness ==
    /\ cls.pc = "returned"
    /\ cls.flag /\ ~cls.probeOk
    /\ cls.history # <<>>
    /\ _is_followup_question(cls.question)
    /\ cls.rewrite.ok /\ cls.reply.ok
    /\ cls.ret.agent = "REPORTER"

(***************************************************************************)
(* Inputs of the workflow: what the vector store holds for the question,   *)
(* what the cross-encoder scores, what the LLM service replies             *)
(***************************************************************************)
MaxDocs == 2

MaxFaqs == 2

Doc(document_id, description, similarity_score) ==
    [document_id |-> document_id, description |-> description,
     similarity_score |-> similarity_score]

\* chunks of two documents: similarity below, at and above
\* SIMILARITY_THRESHOLD, one chunk whose text holds the word error
Docs ==
    {Doc("d1", <<"huong", "dan", "wifi">>, 50),
     Doc("d1", <<"huong", "dan", "wifi">>, 20),
     Doc("d2", <<"cai", "dat", "wifi">>, 50),
     Doc("d2", <<"cai", "dat", "wifi">>, 10),
     Doc("d2", <<"bao", "error", "404">>, 50)}

\* hits come back by decreasing similarity
ByDecreasingSimilarity(hits) ==
    \A i \in DOMAIN hits : \A j \in DOMAIN hits :
        i < j => hits[i].similarity_score >= hits[j].similarity_score

DocumentHits ==
    {hits \in UNION {[1..k -> Docs] : k \in 0..MaxDocs} :
        ByDecreasingSimilarity(hits)}

\* below, at and above reranking_threshold
RerankScores == {30, 60, 90}

FaqAnswerText == <<"wifi", "la", "mang", "khong", "day">>

Faqs ==
    {[faq_id |-> "f1", question |-> <<"wifi", "la", "gi">>,
      answer |-> FaqAnswerText, similarity_score |-> sim] : sim \in {40, 85, 90}}
    \cup
    {[faq_id |-> "f2", question |-> <<"doi", "mat", "khau">>,
      answer |-> <<"vao", "cai", "dat">>, similarity_score |-> sim] : sim \in {50, 90}}
    \cup
    {[faq_id |-> "f3", question |-> <<>>,
      answer |-> <<"vao", "cai", "dat">>, similarity_score |-> 90],
     [faq_id |-> "f4", question |-> <<"bao", "error", "la", "gi">>,
      answer |-> <<"thu", "lai">>, similarity_score |-> 90]}

FaqHits ==
    {hits \in UNION {[1..k -> Faqs] : k \in 0..MaxFaqs} :
        ByDecreasingSimilarity(hits)}

\* the three variant scores the cross-encoder gives one FAQ entry
VariantScores == {<<90, 90, 90>>, <<70, 50, 30>>}

WorkflowQuestions == {<<"wifi">>, <<"Loi", "wifi">>}

WorkflowHistories == {<<>>, <<UserTurn, AssistantTurn>>}

WorkflowRewriteReplies == {LLMDown, Said(<<"cach", "dung", "wifi">>)}

WorkflowClassifyReplies ==
    {LLMDown,
     Said(<<"{", "agent:FAQ", "}">>),
     Said(<<"{", "summary:wifi", "agent:CHATTER", "reasoning:r", "}">>),
     Said(<<"{", "agent:REPORTER", "}">>),
     Said(<<"{", "agent:OTHER", "reasoning:r", "}">>),
     Said(<<"{", "agent:grader", "summary:wifi", "}">>),
     Said(<<"{", "agent:null", "}">>)}

AnswerReplies ==
    {LLMDown, Said(<<>>), Said(<<"ok">>),
     Said(<<"Ban", "bat", "wifi", "trong", "cai", "dat">>)}

\* the cross-encoder is loaded in every running service: the module
\* re-raises the load error when FAIL_FAST_ON_MODEL_ERROR is unset
reranker_loaded == TRUE

(***************************************************************************)
(* The fan-out stage (workflow/rag_workflow.py).  An outcome of a branch   *)
(* is the dict it returns, the connection flag it leaves and what was      *)
(* observed in it.                                                         *)
(***************************************************************************)
_safe_execute_supervisor(question, history, flag, probeOk, rewrite, reply) ==
    classify_request(question, history, flag, probeOk, rewrite, reply).ret

_safe_execute_faq(processed) ==
    IF processed.raised
    THEN [status |-> "ERROR", answer |-> <<>>, references |-> <<>>,
          next_agent |-> "RETRIEVER"]
    ELSE processed.ret

_safe_execute_retriever(processed) == processed

SupervisorOutcomes(question, history, flag) ==
    {[ret  |-> _safe_execute_supervisor(question, history, flag, probeOk,
                                        rewrite, reply),
      flag |-> check_connection(flag, probeOk).flag,
      ev   |-> {}] :
        probeOk \in BOOLEAN, rewrite \in WorkflowRewriteReplies,
        reply \in WorkflowClassifyReplies}

FaqOutcomes(flag) ==
    UNION {
      LET c == check_connection(flag, probeOk)
      IN  {LET processed ==
                   FAQProcess(vector_search(c.live, searchOk, hits),
                              reranker_loaded, predictOk, scores, LLMDown)
           IN  [ret  |-> _safe_execute_faq(processed),
                flag |-> c.flag,
                ev   |-> IF processed.reranker_failed
                         THEN {"faq_raised", "faq_reranker_failed"}
                         ELSE IF processed.raised THEN {"faq_raised"} ELSE {}] :
              scores \in [DOMAIN hits -> VariantScores]} :
        probeOk \in BOOLEAN, searchOk \in BOOLEAN, predictOk \in BOOLEAN,
        hits \in FaqHits}

RetrieverOutcomes(flag) ==
    {LET c == check_connection(flag, probeOk)
         search == vector_search(c.live, searchOk, hits)
     IN  [ret  |-> _safe_execute_retriever(RetrieverProcess(search)),
          flag |-> c.flag,
          ev   |-> IF search.raised THEN {"retriever_raised"} ELSE {}] :
        probeOk \in BOOLEAN, searchOk \in BOOLEAN, hits \in DocumentHits}

\* the outcomes of the FAQ and of the retriever branch do not depend on
\* the request: with the connection flag up and with the flag down
FaqOutcomesLive == FaqOutcomes(TRUE)

FaqOutcomesDown == FaqOutcomes(FALSE)

RetrieverOutcomesLive == RetrieverOutcomes(TRUE)

RetrieverOutcomesDown == RetrieverOutcomes(FALSE)

SupervisorDefault(question) ==
    [agent |-> "FAQ", contextualized_question |-> question, is_followup |-> FALSE]

FaqDefault == [status |-> "ERROR", answer |-> <<>>, references |-> <<>>]

RetrieverDefault == [status |-> "ERROR", documents |-> <<>>]

\* the mutant of _get_result_with_timeout: after the wait expired the late
\* result of the branch is taken
GetLateResult(outcomes, flag, default, name) ==
    outcomes \cup {[ret |-> o.ret, flag |-> o.flag, ev |-> {name \o "_timeout"}] :
                      o \in outcomes}

\* _get_result_with_timeout: the result of the future when it completes
\* within the wait, the default when the wait expires; the branch whose
\* wait expired may or may not have reached its liveness probe
_get_result_with_timeout(outcomes, flag, default, name) ==
    outcomes \cup {[ret |-> default, flag |-> f, ev |-> {name \o "_timeout"}] :
                      f \in {flag} \cup {o.flag : o \in outcomes}}

Branches == {"supervisor", "faq", "retriever"}

\* the orders in which the three workers reach the vector store
Orders ==
    {order \in [1..3 -> Branches] : \A i, j \in 1..3 : i # j => order[i] # order[j]}

\* what _parallel_execution_node writes once the three values are collected
_parallel_execution_node(st, supervisor_result, faq_result, retriever_result) ==
    [st EXCEPT
        !.supervisor_classification = supervisor_result,
        !.question        = Get(supervisor_result, "contextualized_question", st.question),
        !.is_followup     = Get(supervisor_result, "is_followup", FALSE),
        !.context_summary = Get(supervisor_result, "context_summary", ""),
        !.faq_result       = faq_result,
        !.retriever_result = retriever_result,
        !.parallel_mode    = TRUE]

\* the mutant of _decision_router_node: the FAQ answer wins over the label
RouterFaqFirst(st) ==
    LET supervisor_agent == Get(st.supervisor_classification, "agent", "FAQ")
        faq_result       == st.faq_result
        retriever_result == st.retriever_result
    IN  IF Get(faq_result, "status", "") = "SUCCESS"
        THEN [st EXCEPT !.status        = faq_result.status,
                        !.answer        = Get(faq_result, "answer", <<>>),
                        !.references    = Get(faq_result, "references", <<>>),
                        !.current_agent = "end"]
        ELSE IF supervisor_agent \in {"CHATTER", "REPORTER", "OTHER"}
        THEN [st EXCEPT !.current_agent = supervisor_agent]
        ELSE IF Get(retriever_result, "documents", <<>>) # <<>>
        THEN [st EXCEPT !.documents     = Get(retriever_result, "documents", <<>>),
                        !.status        = Get(retriever_result, "status", "SUCCESS"),
                        !.current_agent = "GRADER"]
        ELSE [st EXCEPT !.current_agent = "NOT_ENOUGH_INFO"]

_decision_router_node(st) ==
    LET supervisor_agent == Get(st.supervisor_classification, "agent", "FAQ")
        faq_result       == st.faq_result
        retriever_result == st.retriever_result
    IN  IF supervisor_agent \in {"CHATTER", "REPORTER", "OTHER"}
        THEN [st EXCEPT !.current_agent = supervisor_agent]
        ELSE IF Get(faq_result, "status", "") = "SUCCESS"
        THEN [st EXCEPT !.status        = faq_result.status,
                        !.answer        = Get(faq_result, "answer", <<>>),
                        !.references    = Get(faq_result, "references", <<>>),
                        !.current_agent = "end"]
        ELSE IF Get(retriever_result, "documents", <<>>) # <<>>
        THEN [st EXCEPT !.documents     = Get(retriever_result, "documents", <<>>),
                        !.status        = Get(retriever_result, "status", "SUCCESS"),
                        !.current_agent = "GRADER"]
        ELSE [st EXCEPT !.current_agent = "NOT_ENOUGH_INFO"]

_create_initial_state(question, history) ==
    [question |-> question, original_question |-> question,
     history |-> history, is_followup |-> FALSE, context_summary |-> "",
     current_agent |-> "parallel_execution", documents |-> <<>>,
     qualified_documents |-> <<>>, references |-> <<>>, answer |-> <<>>,
     status |-> "", supervisor_classification |-> NoDict,
     faq_result |-> NoDict, retriever_result |-> NoDict,
     parallel_mode |-> FALSE]

(***************************************************************************)
(* Spec: one request through RAGWorkflow.run or run_with_streaming         *)
(***************************************************************************)
Init ==
    /\ cls = IdleCls
    /\ fan = NoDict
    /\ IdleFaq
    /\ IdleApi
    /\ IdleMilvus
    /\ IdlePool
    /\ connected \in BOOLEAN
    /\ req \in [mode : {"run", "run_with_streaming"},
                question : WorkflowQuestions, history : WorkflowHistories]
    /\ state = _create_initial_state(req.question, req.history)
    /\ pc = "parallel_execution"
    /\ ran = <<>>
    /\ obs = {}
    /\ returned = NoDict

\* the node parallel_execution: the three branches run on the pool, the
\* stage collects a result or a default for each and writes the state
ParallelExecution ==
    /\ pc = "parallel_execution"
    /\ LET question == state.question
           history  == state.history
           outcomes(name, flag) ==
               CASE name = "supervisor" ->
                      _get_result_with_timeout(
                          SupervisorOutcomes(question, history, flag), flag,
                          SupervisorDefault(question), name)
                 [] name = "faq" ->
                      _get_result_with_timeout(
                          IF flag THEN FaqOutcomesLive ELSE FaqOutcomesDown,
                          flag, FaqDefault, name)
                 [] name = "retriever" ->
                      _get_result_with_timeout(
                          IF flag THEN RetrieverOutcomesLive
                          ELSE RetrieverOutcomesDown,
                          flag, RetrieverDefault, name)
       IN  \E order \in Orders :
           \E o1 \in outcomes(order[1], connected) :
           \E o2 \in outcomes(order[2], o1.flag) :
           \E o3 \in outcomes(order[3], o2.flag) :
               LET of == [name \in Branches |->
                             IF order[1] = name THEN o1
                             ELSE IF order[2] = name THEN o2 ELSE o3]
               IN  /\ state' = _parallel_execution_node(
                                   state, of["supervisor"].ret, of["faq"].ret,
                                   of["retriever"].ret)
                   /\ connected' = o3.flag
                   /\ obs' = obs \cup o1.ev \cup o2.ev \cup o3.ev
    /\ pc' = "decision_router"
    /\ ran' = Append(ran, "parallel_execution")
    /\ UNCHANGED <<cls, req, returned, fan, faqcall, api, milvus, pool>>

\* the node decision_router
DecisionRouter ==
    /\ pc = "decision_router"
    /\ state' = _decision_router_node(state)
    /\ pc' = "route_after_decision"
    /\ ran' = Append(ran, "decision_router")
    /\ UNCHANGED <<cls, connected, req, obs, returned, fan, faqcall, api, milvus, pool>>

\* the result dict of a responder written into the state by its node
WriteResult(st, result) ==
    [st EXCEPT !.status        = result.status,
               !.answer        = Get(result, "answer", <<>>),
               !.references    = Get(result, "references", <<>>),
               !.current_agent = "end"]

_grader_node(st, reranked) ==
    LET result == GraderProcess(Get(st, "documents", <<>>), reranked)
    IN  [st EXCEPT !.status              = result.status,
                   !.qualified_documents = Get(result, "qualified_documents", <<>>),
                   !.references          = Get(result, "references", <<>>),
                   !.current_agent       = Get(result, "next_agent", "GENERATOR")]

_generator_node(st, reply) ==
    WriteResult(st, GeneratorProcess(Get(st, "qualified_documents", <<>>),
                                     Get(st, "references", <<>>), reply))

_not_enough_info_node(st, reply) == WriteResult(st, NotEnoughInfoProcess(reply))

_chatter_node(st, reply) ==
    WriteResult(st, ChatterProcess(Get(st, "history", <<>>), reply))

_reporter_node(st, db_status) == WriteResult(st, ReporterProcess(db_status))

_other_node(st, reply) == WriteResult(st, OtherProcess(reply))

\* the path maps of add_conditional_edges
AfterDecisionMap ==
    ("GRADER" :> "grader") @@ ("CHATTER" :> "chatter") @@
    ("REPORTER" :> "reporter") @@ ("OTHER" :> "other") @@ ("end" :> "__end__")

\* the mutant of AfterGraderMap: both labels lead to the generator
AfterGraderAlwaysGenerator ==
    ("GENERATOR" :> "generator") @@ ("NOT_ENOUGH_INFO" :> "generator")

AfterGraderMap ==
    ("GENERATOR" :> "generator") @@ ("NOT_ENOUGH_INFO" :> "not_enough_info")

\* the compiled graph follows path_map[key]; a key the map lacks raises
\* KeyError out of workflow.invoke
ConditionalEdge(path_map, key) ==
    IF key \in DOMAIN path_map THEN path_map[key] ELSE "KeyError"

Running(mode) == req.mode = mode

\* run(): the conditional edge after decision_router
RouteAfterDecision ==
    /\ pc = "route_after_decision"
    /\ Running("run")
    /\ pc' = ConditionalEdge(AfterDecisionMap, Get(state, "current_agent", "end"))
    /\ UNCHANGED <<cls, connected, req, state, ran, obs, returned, fan, faqcall, api, milvus, pool>>

\* run_with_streaming(): the if / elif chain after the router
StreamDispatch ==
    /\ pc = "route_after_decision"
    /\ Running("run_with_streaming")
    /\ LET current_agent == Get(state, "current_agent", "")
       IN  pc' = CASE current_agent = "end"      -> "__end__"
                   [] current_agent = "GRADER"   -> "grader"
                   [] current_agent = "CHATTER"  -> "chatter"
                   [] current_agent = "REPORTER" -> "reporter"
                   [] current_agent = "OTHER"    -> "other"
                   [] OTHER                      -> "__end__"
    /\ UNCHANGED <<cls, connected, req, state, ran, obs, returned, fan, faqcall, api, milvus, pool>>

GraderNode ==
    /\ pc = "grader"
    /\ \E predictOk \in BOOLEAN :
       \E scores \in [DOMAIN state.documents -> RerankScores] :
           LET reranked == rerank_documents(state.documents, reranker_loaded,
                                            predictOk, scores)
           IN  /\ state' = _grader_node(state, reranked)
               /\ obs' = IF reranked.raised
                         THEN obs \cup {"grader_reranker_failed"} ELSE obs
    /\ pc' = "after_grader"
    /\ ran' = Append(ran, "grader")
    /\ UNCHANGED <<cls, connected, req, returned, fan, faqcall, api, milvus, pool>>

\* run(): the conditional edge after grader
RouteNextAgent ==
    /\ pc = "after_grader"
    /\ Running("run")
    /\ pc' = ConditionalEdge(AfterGraderMap, Get(state, "current_agent", "end"))
    /\ UNCHANGED <<cls, connected, req, state, ran, obs, returned, fan, faqcall, api, milvus, pool>>

\* run_with_streaming(): GENERATOR streams, anything else is answered by
\* the not-enough-info node
StreamAfterGrader ==
    /\ pc = "after_grader"
    /\ Running("run_with_streaming")
    /\ pc' = IF Get(state, "current_agent", "") = "GENERATOR"
             THEN "stream_generator" ELSE "not_enough_info"
    /\ UNCHANGED <<cls, connected, req, state, ran, obs, returned, fan, faqcall, api, milvus, pool>>

GeneratorNode ==
    /\ pc = "generator"
    /\ \E reply \in AnswerReplies : state' = _generator_node(state, reply)
    /\ pc' = "__end__"
    /\ ran' = Append(ran, "generator")
    /\ UNCHANGED <<cls, connected, req, obs, returned, fan, faqcall, api, milvus, pool>>

NotEnoughInfoNode ==
    /\ pc = "not_enough_info"
    /\ \E reply \in AnswerReplies : state' = _not_enough_info_node(state, reply)
    /\ pc' = "__end__"
    /\ ran' = Append(ran, "not_enough_info")
    /\ UNCHANGED <<cls, connected, req, obs, returned, fan, faqcall, api, milvus, pool>>

ChatterNode ==
    /\ pc = "chatter"
    /\ \E reply \in AnswerReplies : state' = _chatter_node(state, reply)
    /\ pc' = "__end__"
    /\ ran' = Append(ran, "chatter")
    /\ UNCHANGED <<cls, connected, req, obs, returned, fan, faqcall, api, milvus, pool>>

ReporterNode ==
    /\ pc = "reporter"
    /\ \E probeOk \in BOOLEAN :
           /\ state' = _reporter_node(
                           state, check_database_connection(connected, probeOk))
           /\ connected' = check_connection(connected, probeOk).flag
    /\ pc' = "__end__"
    /\ ran' = Append(ran, "reporter")
    /\ UNCHANGED <<cls, req, obs, returned, fan, faqcall, api, milvus, pool>>

OtherNode ==
    /\ pc = "other"
    /\ \E reply \in AnswerReplies : state' = _other_node(state, reply)
    /\ pc' = "__end__"
    /\ ran' = Append(ran, "other")
    /\ UNCHANGED <<cls, connected, req, obs, returned, fan, faqcall, api, milvus, pool>>

GenericError == <<"Xin", "loi,", "he", "thong", "gap", "su", "co.">>

\* run(): the dict built from the final state, or the except branch when
\* workflow.invoke raised
RunReturn ==
    /\ pc \in {"__end__", "KeyError"}
    /\ Running("run")
    /\ returned' =
           IF pc = "KeyError"
           THEN [answer |-> GenericError, references |-> <<>>, status |-> "ERROR"]
           ELSE [answer     |-> Get(state, "answer", <<"Loi", "xu", "ly">>),
                 references |-> Get(state, "references", <<>>),
                 status     |-> Get(state, "status", "ERROR")]
    /\ pc' = "done"
    /\ UNCHANGED <<cls, connected, req, state, ran, obs, fan, faqcall, api, milvus, pool>>

\* answer_text.split() and one chunk `word + " "` per word
WordStream(answer_text) ==
    LET words == SelectSeq(answer_text, LAMBDA w : w \notin {"", " ", "\n"})
    IN  [i \in DOMAIN words |-> words[i] \o " "]

\* run_with_streaming(): the answer of the state as a stream of words
StreamReturn ==
    /\ pc = "__end__"
    /\ Running("run_with_streaming")
    /\ returned' = [answer_stream |-> WordStream(Get(state, "answer", <<>>)),
                    references    |-> Get(state, "references", <<>>),
                    status        |-> Get(state, "status", "SUCCESS")]
    /\ pc' = "done"
    /\ UNCHANGED <<cls, connected, req, state, ran, obs, fan, faqcall, api, milvus, pool>>

\* run_with_streaming(): the GENERATOR branch looks up process_streaming on
\* the GeneratorAgent; the class does not define it, the AttributeError is
\* answered by the except branch
StreamGenerator ==
    /\ pc = "stream_generator"
    /\ Running("run_with_streaming")
    /\ returned' =
           IF "process_streaming" \in GeneratorAgentMethods
           THEN [answer_stream |-> <<>>,
                 references    |-> Get(state, "references", <<>>),
                 status        |-> "STREAMING"]
           ELSE [answer_stream |-> <<"Xin loi, he thong gap su co.">>,
                 references    |-> <<>>,
                 status        |-> "ERROR"]
    /\ pc' = "done"
    /\ UNCHANGED <<cls, connected, req, state, ran, obs, fan, faqcall, api, milvus, pool>>

Next ==
    \/ ParallelExecution
    \/ DecisionRouter
    \/ RouteAfterDecision
    \/ StreamDispatch
    \/ GraderNode
    \/ RouteNextAgent
    \/ StreamAfterGrader
    \/ GeneratorNode
    \/ NotEnoughInfoNode
    \/ ChatterNode
    \/ ReporterNode
    \/ OtherNode
    \/ RunReturn
    \/ StreamReturn
    \/ StreamGenerator

Spec == Init /\ [][Next]_vars

(***************************************************************************)
(* Claims on the workflow                                                  *)
(***************************************************************************)
Label == Get(state.supervisor_classification, "agent", "FAQ")

FaqStatus == Get(state.faq_result, "status", "")

RetrievedDocuments == Get(state.retriever_result, "documents", <<>>)

Collected == pc # "parallel_execution"

Routed == pc \notin {"parallel_execution", "decision_router"}

NothingRetrieved ==
    Label = "FAQ" /\ FaqStatus # "SUCCESS" /\ RetrievedDocuments = <<>>

\* C1: a request labelled FAQ whose FAQ branch did not succeed and whose
\* retriever returned no document is answered by the not-enough-info
\* responder: its node runs and the response carries its answer and status,
\* never the generic ERROR outcome, in run() and in run_with_streaming().
C1_NothingRetrievedRunsNotEnoughInfo ==
    (pc = "done" /\ NothingRetrieved) =>
        /\ ran = <<"parallel_execution", "decision_router", "not_enough_info">>
        /\ returned.status = "SUCCESS"
        /\ returned.references =
               <<[document_id |-> "llm_knowledge", type |-> "GENERAL_KNOWLEDGE"]>>

\* the priority function of the three collected values
Priority(label, faq_status, documents) ==
    IF label \in {"CHATTER", "REPORTER", "OTHER"} THEN label
    ELSE IF faq_status = "SUCCESS" THEN "end"
    ELSE IF documents # <<>> THEN "GRADER"
    ELSE "NOT_ENOUGH_INFO"

\* C2: the continuation the Decision Router chooses is the priority
\* function of the three collected values (label CHATTER / REPORTER / OTHER
\* first, then a FAQ result with status SUCCESS, then retrieved documents,
\* else not-enough-info); when the FAQ result wins the request ends with
\* exactly the FAQ branch's answer and references and no further node runs.
C2_RouterPriority ==
    /\ Routed =>
           state.current_agent \in
               IF pc = "route_after_decision"
               THEN {Priority(Label, FaqStatus, RetrievedDocuments)}
               ELSE {Priority(Label, FaqStatus, RetrievedDocuments), "end",
                     "GENERATOR", "NOT_ENOUGH_INFO"}
    /\ (pc = "route_after_decision"
            /\ Priority(Label, FaqStatus, RetrievedDocuments) = "end") =>
           /\ state.answer = state.faq_result.answer
           /\ state.references = state.faq_result.references
    /\ (pc = "done" /\ Priority(Label, FaqStatus, RetrievedDocuments) = "end") =>
           /\ ran = <<"parallel_execution", "decision_router">>
           /\ returned.references = state.faq_result.references
           /\ returned.status = "SUCCESS"
           /\ Running("run") => returned.answer = state.faq_result.answer
           /\ Running("run_with_streaming") =>
                  returned.answer_stream = WordStream(state.faq_result.answer)

C2_Witness ==
    /\ pc = "route_after_decision"
    /\ Label = "CHATTER"
    /\ FaqStatus = "SUCCESS"
    /\ RetrievedDocuments # <<>>
    /\ state.current_agent = "CHATTER"

TimedOut(branch) == (branch \o "_timeout") \in obs

\* C5: a branch whose wait expires or that raises is replaced by its
\* fallback and the request goes on: the classifier fallback has a valid
\* label (FAQ on timeout), the original question and is_followup false; the
\* FAQ fallback is ERROR with empty answer and no references; the retriever
\* fallback is ERROR with no documents; one classification is in the state.
C5_FallbackValues ==
    Collected =>
        /\ state.supervisor_classification # NoDict
        /\ Label \in valid_agents
        /\ TimedOut("supervisor") =>
               /\ state.supervisor_classification.agent = "FAQ"
               /\ state.question = req.question
               /\ state.is_followup = FALSE
        /\ Get(state.supervisor_classification, "reasoning", "")
                   = "Fallback due to error" =>
               /\ state.supervisor_classification.contextualized_question
                      = req.question
               /\ state.supervisor_classification.is_followup = FALSE
        /\ (TimedOut("faq") \/ "faq_raised" \in obs) =>
               /\ state.faq_result.status = "ERROR"
               /\ state.faq_result.answer = <<>>
               /\ state.faq_result.references = <<>>
        /\ (TimedOut("retriever") \/ "retriever_raised" \in obs) =>
               /\ state.retriever_result.status = "ERROR"
               /\ state.retriever_result.documents = <<>>

C5_Witness ==
    /\ pc = "done"
    /\ TimedOut("supervisor")
    /\ "faq_raised" \in obs
    /\ TimedOut("retriever")
    /\ req.history # <<>>

Thresholds(doc) ==
    /\ "rerank_score" \in DOMAIN doc
    /\ doc.rerank_score >= 60
    /\ doc.similarity_score >= 20

\* C6: whenever the workflow invokes the Generator, every document of the
\* passage list it hands over has rerank_score >= 0.6 and
\* similarity_score >= 0.2, whatever the text of the retrieved documents
\* and whatever the reranker returned.
C6_GeneratorPassagesQualified ==
    pc \in {"generator", "stream_generator"} =>
        /\ state.qualified_documents # <<>>
        /\ \A i \in DOMAIN state.qualified_documents :
               Thresholds(state.qualified_documents[i])

C6_Witness ==
    /\ pc = "generator"
    /\ Len(state.documents) = 2
    /\ Len(state.qualified_documents) = 1
    /\ state.qualified_documents[1].rerank_score = 60
    /\ state.qualified_documents[1].similarity_score = 20

RerankerFailed == obs \cap {"faq_reranker_failed", "grader_reranker_failed"} # {}

\* C7: when the cross-encoder fails while the FAQ branch or the Grader
\* reranks, the failure propagates: the request ends with an error outcome,
\* so at the least no answer with status SUCCESS is returned for it.
C7_RerankerFailurePropagates ==
    (pc = "done" /\ RerankerFailed) => returned.status # "SUCCESS"

NoDuplicateIds(references) ==
    \A i, j \in DOMAIN references :
        i # j => references[i].document_id # references[j].document_id

\* C8: on every route of run() and of run_with_streaming() the references
\* returned to the caller hold no two entries with the same document_id,
\* also when several qualified passages share one document_id.
C8_ReturnedReferencesUnique ==
    pc = "done" => NoDuplicateIds(returned.references)

C8_Witness ==
    /\ pc = "done"
    /\ Running("run")
    /\ Len(state.qualified_documents) = 2
    /\ state.qualified_documents[1].document_id
           = state.qualified_documents[2].document_id
    /\ Len(returned.references) = 1
    /\ returned.status = "SUCCESS"

(***************************************************************************)
(* SpecFanout: the timing of _parallel_execution_node.  The three tasks    *)
(* are submitted at time 0 to the pool of three workers; the calling       *)
(* thread then waits for the futures one after the other, each wait with   *)
(* its own timeout counted from the moment the wait starts.  Time is in    *)
(* seconds and advances by Tick; a worker may complete its future at any   *)
(* time, also after the wait for it has expired.                           *)
(***************************************************************************)
Tick == 5

Horizon == 45

SupervisorTimeout == 20

FaqTimeout == 10

RetrieverTimeout == 10

TimeoutOf(branch) ==
    CASE branch = "supervisor" -> SupervisorTimeout
      [] branch = "faq"        -> FaqTimeout
      [] branch = "retriever"  -> RetrieverTimeout

FanQuestion == <<"wifi">>

DefaultOf(branch) ==
    CASE branch = "supervisor" -> SupervisorDefault(FanQuestion)
      [] branch = "faq"        -> FaqDefault
      [] branch = "retriever"  -> RetrieverDefault

\* what a worker can return for the request
FanResults(branch) ==
    CASE branch = "supervisor" ->
           {[agent |-> "FAQ", contextualized_question |-> <<"cach", "dung", "wifi">>,
             context_summary |-> "wifi", is_followup |-> TRUE, reasoning |-> "r"],
            [agent |-> "CHATTER", contextualized_question |-> FanQuestion,
             context_summary |-> "", is_followup |-> FALSE, reasoning |-> ""]}
      [] branch = "faq" ->
           {_route_to_retriever,
            FaqAnswer([faq_id |-> "f1", question |-> <<"wifi", "la", "gi">>,
                       rerank_score |-> 9900, similarity_score |-> 90],
                      FaqAnswerText, "direct")}
      [] branch = "retriever" ->
           {[status |-> "ERROR", documents |-> <<>>, next_agent |-> "NOT_ENOUGH_INFO"],
            [status |-> "SUCCESS", next_agent |-> "GRADER",
             documents |-> <<Doc("d1", <<"huong", "dan", "wifi">>, 50)>>]}

Pending == [done |-> FALSE, at |-> 0, value |-> NoDict]

InitFanout ==
    /\ cls = IdleCls
    /\ IdleFaq
    /\ IdleApi
    /\ IdleMilvus
    /\ IdlePool
    /\ connected = TRUE
    /\ req = [mode |-> "run", question |-> FanQuestion, history |-> <<>>]
    /\ state = _create_initial_state(FanQuestion, <<>>)
    /\ pc = "wait_supervisor"
    /\ ran = <<>>
    /\ obs = {}
    /\ returned = NoDict
    /\ fan = [now        |-> 0,
              wait_start |-> 0,
              future     |-> [b \in Branches |-> Pending],
              collected  |-> [b \in Branches |-> NoDict],
              expired    |-> {}]

Waiting(branch) == pc = "wait_" \o branch

\* the mutant of AfterWait: the last wait is repeated
AfterWaitRepeats(branch) ==
    CASE branch = "supervisor" -> "wait_faq"
      [] branch = "faq"        -> "wait_retriever"
      [] branch = "retriever"  -> "wait_retriever"

\* the phase after the wait for branch
AfterWait(branch) ==
    CASE branch = "supervisor" -> "wait_faq"
      [] branch = "faq"        -> "wait_retriever"
      [] branch = "retriever"  -> "write_state"

\* future.result(timeout) returns as soon as the future is done or the
\* timeout has elapsed: time does not pass while it can return
CanReturn(branch) ==
    /\ Waiting(branch)
    /\ \/ fan.future[branch].done
       \/ fan.now - fan.wait_start >= TimeoutOf(branch)

\* a worker finishes its task: _safe_execute_* returns and the future is set
Complete(branch) ==
    /\ ~fan.future[branch].done
    /\ \E value \in FanResults(branch) :
           fan' = [fan EXCEPT !.future[branch] =
                       [done |-> TRUE, at |-> fan.now, value |-> value]]
    /\ UNCHANGED <<cls, connected, req, state, pc, ran, obs, returned, faqcall, api, milvus, pool>>

\* _get_result_with_timeout returns the result of the future
CollectResult(branch) ==
    /\ Waiting(branch)
    /\ fan.future[branch].done
    /\ fan' = [fan EXCEPT !.collected[branch] = fan.future[branch].value,
                          !.wait_start = fan.now]
    /\ pc' = AfterWait(branch)
    /\ UNCHANGED <<cls, connected, req, state, ran, obs, returned, faqcall, api, milvus, pool>>

\* _get_result_with_timeout catches FutureTimeoutError and returns default
CollectDefault(branch) ==
    /\ Waiting(branch)
    /\ ~fan.future[branch].done
    /\ fan.now - fan.wait_start >= TimeoutOf(branch)
    /\ fan' = [fan EXCEPT !.collected[branch] = DefaultOf(branch),
                          !.expired = @ \cup {branch},
                          !.wait_start = fan.now]
    /\ pc' = AfterWait(branch)
    /\ UNCHANGED <<cls, connected, req, state, ran, obs, returned, faqcall, api, milvus, pool>>

\* the mutant of CollectedValue: the future is read again when the state
\* is written
ReadFutureAgain(collected, future) ==
    IF future.done THEN future.value ELSE collected

\* the value of supervisor_result / faq_result / retriever_result when the
\* state is written: the local variable assigned by the wait
CollectedValue(collected, future) == collected

\* the three collected values are written into the request state
WriteState ==
    /\ pc = "write_state"
    /\ state' = _parallel_execution_node(
                    state,
                    CollectedValue(fan.collected["supervisor"], fan.future["supervisor"]),
                    CollectedValue(fan.collected["faq"], fan.future["faq"]),
                    CollectedValue(fan.collected["retriever"], fan.future["retriever"]))
    /\ pc' = "decision_router"
    /\ ran' = Append(ran, "parallel_execution")
    /\ UNCHANGED <<cls, connected, req, obs, returned, fan, faqcall, api, milvus, pool>>

\* the node decision_router, after which the stage is over
RouteCollected ==
    /\ pc = "decision_router"
    /\ state' = _decision_router_node(state)
    /\ pc' = "routed"
    /\ ran' = Append(ran, "decision_router")
    /\ UNCHANGED <<cls, connected, req, obs, returned, fan, faqcall, api, milvus, pool>>

Advance ==
    /\ fan.now + Tick <= Horizon
    /\ \A b \in Branches : ~CanReturn(b)
    /\ pc \notin {"write_state", "decision_router"}
    /\ fan' = [fan EXCEPT !.now = @ + Tick]
    /\ UNCHANGED <<cls, connected, req, state, pc, ran, obs, returned, faqcall, api, milvus, pool>>

NextFanout ==
    \/ \E b \in Branches : Complete(b)
    \/ \E b \in Branches : CollectResult(b)
    \/ \E b \in Branches : CollectDefault(b)
    \/ WriteState
    \/ RouteCollected
    \/ Advance

SpecFanout == InitFanout /\ [][NextFanout]_vars

(***************************************************************************)
(* Claims on the fan-out stage                                             *)
(***************************************************************************)
Written == pc \in {"decision_router", "routed"}

\* the request state the three collected values determine
RoutedState(collected) ==
    _decision_router_node(
        _parallel_execution_node(
            _create_initial_state(FanQuestion, <<>>), collected["supervisor"],
            collected["faq"], collected["retriever"]))

\* C3: the routing decision and the request state are a function of the
\* three collected values only (each the result of its branch or the
\* fallback), whatever the order and the times at which the branches
\* complete, and a result that arrives after the wait for its branch has
\* expired is never written into the request state.
C3_RoutingFromCollected ==
    /\ \A b \in Branches :
           fan.collected[b] # NoDict =>
               \/ b \in fan.expired /\ fan.collected[b] = DefaultOf(b)
               \/ /\ b \notin fan.expired
                  /\ fan.future[b].done
                  /\ fan.collected[b] = fan.future[b].value
    /\ Written =>
           /\ state.supervisor_classification = fan.collected["supervisor"]
           /\ state.faq_result = fan.collected["faq"]
           /\ state.retriever_result = fan.collected["retriever"]
    /\ pc = "routed" =>
           /\ state = RoutedState(fan.collected)
           /\ state.current_agent =
                  Priority(Get(fan.collected["supervisor"], "agent", "FAQ"),
                           Get(fan.collected["faq"], "status", ""),
                           Get(fan.collected["retriever"], "documents", <<>>))

C3_Witness ==
    /\ pc = "routed"
    /\ fan.expired = {"faq"}
    /\ fan.future["faq"].done
    /\ fan.future["faq"].value.status = "SUCCESS"
    /\ fan.future["faq"].at < fan.future["retriever"].at
    /\ state.faq_result = FaqDefault
    /\ state.current_agent = "GRADER"

\* C4: every branch is bounded by its own limit counted from the launch of
\* the three branches: a FAQ or retriever result that becomes available
\* more than 10 s after the launch is never used, the fallback of the
\* branch stands for it, whatever the duration of the classifier branch.
C4_LimitCountedFromLaunch ==
    Written =>
        /\ (fan.future["faq"].done /\ fan.future["faq"].at > 10) =>
               state.faq_result = FaqDefault
        /\ (fan.future["retriever"].done /\ fan.future["retriever"].at > 10) =>
               state.retriever_result = RetrieverDefault

(***************************************************************************)
(* SpecFaq: one call of FAQAgent.process on the entries search_faq         *)
(* returns, with the scores the cross-encoder gives each of them and the   *)
(* reply the LLM would give.                                               *)
(***************************************************************************)
\* scores whose fused value lies below rerank_threshold (5600), between
\* rerank_threshold and direct_answer_threshold (6800) and above (9900)
FaqVariantScores == VariantScores \cup {<<80, 60, 50>>}

InitFaq ==
    /\ cls = IdleCls
    /\ connected = TRUE
    /\ IdleRequest
    /\ IdleFan
    /\ IdleApi
    /\ IdleMilvus
    /\ IdlePool
    /\ \E hits \in FaqHits, searchOk \in BOOLEAN, predictOk \in BOOLEAN,
          reply \in AnswerReplies :
       \E scores \in [DOMAIN hits -> FaqVariantScores] :
          faqcall = [pc        |-> "call",
                 search    |-> vector_search(TRUE, searchOk, hits),
                 predictOk |-> predictOk,
                 scores    |-> scores,
                 reply     |-> reply,
                 out       |-> NoDict]

FaqProcess ==
    /\ faqcall.pc = "call"
    /\ faqcall' = [faqcall EXCEPT
                  !.pc = "returned",
                  !.out = FAQProcess(faqcall.search, reranker_loaded, faqcall.predictOk,
                                     faqcall.scores, faqcall.reply)]
    /\ UNCHANGED <<cls, connected, req, state, pc, ran, obs, returned, fan, api, milvus, pool>>

NextFaq == FaqProcess

SpecFaq == InitFaq /\ [][NextFaq]_vars

\* the entries of the call that pass vector_threshold, reranked: <<>> when
\* the search or the reranking failed or nothing passed
RankedFaqs ==
    IF faqcall.search.raised THEN <<>>
    ELSE LET hits == faqcall.search.ret
             Passes(entry) == entry.similarity_score >= vector_threshold
             kept == SelectSeq([i \in DOMAIN hits |-> i],
                               LAMBDA i : Passes(hits[i]))
             reranked == rerank_faq(SelectSeq(hits, Passes), reranker_loaded,
                                    faqcall.predictOk,
                                    [j \in DOMAIN kept |-> faqcall.scores[kept[j]]])
         IN  IF reranked.raised \/ StrHasError(hits) THEN <<>> ELSE reranked.ret

\* the call returned a dict (it did not raise)
FaqReturned == faqcall.pc = "returned" /\ ~faqcall.out.raised

DirectAnswer ==
    /\ FaqReturned
    /\ faqcall.out.ret.status = "SUCCESS"
    /\ Get(faqcall.out.ret, "mode", "") = "direct"

\* C11: whenever FAQAgent.process returns a direct answer (status SUCCESS,
\* mode direct), the top-ranked entry has similarity_score >= 0.85 or fused
\* rerank_score >= 0.75, and the answer is that entry's stored answer.
C11_DirectAnswerAboveThreshold ==
    DirectAnswer =>
        /\ RankedFaqs # <<>>
        /\ \/ RankedFaqs[1].similarity_score >= force_similarity_threshold
           \/ RankedFaqs[1].rerank_score >= direct_answer_threshold
        /\ faqcall.out.ret.answer = RankedFaqs[1].answer

\* a direct answer from an entry ranked first among two
C11_Witness ==
    /\ DirectAnswer
    /\ Len(RankedFaqs) = 2
    /\ RankedFaqs[1].rerank_score > RankedFaqs[2].rerank_score
    /\ RankedFaqs[1].similarity_score < RankedFaqs[2].similarity_score

\* the LLM's reply is an answer FAQAgent.process accepts: ten characters or
\* more and no NOT_FOUND
UsableReply ==
    /\ faqcall.reply.ok
    /\ CharLen(faqcall.reply.text) >= MinAnswerChars
    /\ ~ContainsAny(Upper(faqcall.reply.text), {"NOT_FOUND"})

\* C12: when the top-ranked entry has similarity_score in [0.5, 0.85) and
\* fused rerank score >= 0.75, FAQAgent.process returns that entry's stored
\* answer with status SUCCESS; when its fused score is in [0.6, 0.75) the
\* LLM is asked to synthesize the answer, so that a usable reply of the LLM
\* is returned with status SUCCESS instead of a deferral to the retriever.
C12_MidSimilarityAnswered ==
    (/\ faqcall.pc = "returned"
     /\ RankedFaqs # <<>>
     /\ RankedFaqs[1].similarity_score >= vector_threshold
     /\ RankedFaqs[1].similarity_score < force_similarity_threshold) =>
        /\ RankedFaqs[1].rerank_score >= direct_answer_threshold =>
              /\ DirectAnswer
              /\ faqcall.out.ret.answer = RankedFaqs[1].answer
        /\ (/\ RankedFaqs[1].rerank_score >= rerank_threshold
            /\ RankedFaqs[1].rerank_score < direct_answer_threshold
            /\ UsableReply) =>
              /\ FaqReturned
              /\ faqcall.out.ret.status = "SUCCESS"
              /\ faqcall.out.ret.answer = faqcall.reply.text

(***************************************************************************)
(* Follow-up rewriting and failures of the classifier, under SpecClassify  *)
(***************************************************************************)
\* the call got as far as the rewriter: the probe reported live, the history
\* is not empty and the question is detected as a follow-up
DetectedFollowup ==
    /\ cls.pc = "returned"
    /\ ProbeLive
    /\ cls.history # <<>>
    /\ _is_followup_question(cls.question)

\* C13: for a question detected as a follow-up with non-empty history, when
\* the LLM call of the rewriter fails the classification carries the
\* original question as contextualized question and is_followup false.
C13_RewriterFailureKeepsQuestion ==
    (DetectedFollowup /\ ~cls.rewrite.ok) =>
        /\ cls.ret.contextualized_question = cls.question
        /\ cls.ret.is_followup = FALSE

Sentinel == "[can lam ro]"

\* the original question, marked as no follow-up
KeepsQuestion ==
    /\ cls.ret.contextualized_question = cls.question
    /\ cls.ret.is_followup = FALSE

C15_ShortHistoryNeverFollowup ==
    (cls.pc = "returned" /\ Len(cls.history) <= 1) =>
        /\ \A i \in DOMAIN cls.calls : cls.calls[i] # "rewrite"
        /\ cls.ret.is_followup = FALSE

\* the label of the reply's JSON object is no string: .upper() raises
LabelNoString == ReplyLabel # <<>> /\ ReplyLabel[1] \in {JsonNone, JsonNumber}

\* something failed inside the call: an LLM call (of the rewriter or of the
\* classifier), the parsing of the reply, or an exception on the label
ClassifierFailure ==
    /\ cls.pc = "returned"
    /\ ProbeLive
    /\ \/ ~cls.reply.ok
       \/ DetectedFollowup /\ ~cls.rewrite.ok
       \/ ReplyLabel = <<>>
       \/ LabelNoString

\* C16: every failure inside the classifier yields a classification with
\* label FAQ and the original question as contextualized question.
C16_FailureGivesFAQ ==
    ClassifierFailure =>
        /\ cls.ret.agent = "FAQ"
        /\ cls.ret.contextualized_question = cls.question

\* C17 (as claimed): when the classification reply cannot be parsed as a
\* JSON object, and when the parsed label is unknown, the label is the one
\* the keyword fallback gives: CHATTER for negative-affect words, otherwise
\* REPORTER for system-failure words, otherwise FAQ.
C17_UnparsedReplyKeywordFallback ==
    (cls.pc = "returned" /\ ProbeLive /\ (ReplyLabel = <<>> \/ UnknownLabel)) =>
        cls.ret.agent \in {KeywordLabel(cls.ret.contextualized_question),
                           KeywordLabel(cls.question)}

\* C17 (amended): when the classification reply cannot be parsed as a JSON
\* object the label is FAQ, whatever the words of the question; when the
\* parsed label is unknown the keyword fallback is applied to the
\* contextualized question (to the original question when the label is no
\* string) in the order CHATTER, REPORTER, FAQ.
C17_UnparsedFAQUnknownKeyword ==
    (cls.pc = "returned" /\ ProbeLive) =>
        /\ ReplyLabel = <<>> => cls.ret.agent = "FAQ"
        /\ UnknownLabel =>
              cls.ret.agent = KeywordLabel(IF LabelNoString THEN cls.question
                                           ELSE cls.ret.contextualized_question)

\* a reply without JSON object on a question with a system-failure word
C17_Witness ==
    /\ cls.pc = "returned"
    /\ ProbeLive
    /\ cls.reply = Said(<<"toi", "chon", "FAQ">>)
    /\ cls.history = <<>>
    /\ KeywordLabel(cls.question) = "REPORTER"
    /\ cls.ret.agent = "FAQ"

(***************************************************************************)
(* SpecApi: one HTTP request to POST /chat or POST /stream-chat            *)
(* (api/main.py).  Both handlers call RAGWorkflow.run; the workflow inside *)
(* is the one of Spec.  ChatRequest (api/schemas.py) asks only that        *)
(* question is a string.                                                   *)
(***************************************************************************)
MinQuestionChars == 3

MaxQuestionChars == 1000

RECURSIVE Repeat(_, _)
\* the string of n copies of the character c
Repeat(c, n) ==
    IF n = 0 THEN ""
    ELSE IF n % 2 = 0 THEN LET half == Repeat(c, n \div 2) IN half \o half
    ELSE Repeat(c, n - 1) \o c

\* validate_question (utils/helpers.py): a text is stripped of the blanks
\* around it, which a sequence of words does not carry
validate_question(question) ==
    IF question = <<>>
    THEN [valid |-> FALSE, message |-> "Cau hoi khong duoc de trong"]
    ELSE IF CharLen(question) < MinQuestionChars
    THEN [valid |-> FALSE, message |-> "Cau hoi qua ngan"]
    ELSE IF CharLen(question) > MaxQuestionChars
    THEN [valid |-> FALSE, message |-> "Cau hoi qua dai (toi da 1000 ky tu)"]
    ELSE [valid |-> TRUE, message |-> ""]

\* the empty question, questions of two and of three characters, a question
\* of two words and one of more than MaxQuestionChars characters
ApiQuestions ==
    {<<>>, <<"ab">>, <<"abc">>, <<"Loi", "wifi">>,
     <<Repeat("x", MaxQuestionChars + 1)>>}

ChunkEvery == 5

\* answer.split()
Split(answer) == SelectSeq(answer, LAMBDA w : w \notin {"", " ", "\n"})

\* the progress events sent before the workflow runs
Steps ==
    <<[type |-> "step", step |-> "supervisor", message |-> "Analyzing question..."],
      [type |-> "step", step |-> "retrieval",
       message |-> "Searching for relevant information..."],
      [type |-> "step", step |-> "grading",
       message |-> "Evaluating document quality..."],
      [type |-> "step", step |-> "generation", message |-> "Generating answer..."]>>

\* the references of a result as the handlers send them
ApiReferences(result) ==
    LET references == Get(result, "references", <<>>)
    IN  [i \in DOMAIN references |->
            [document_id |-> Get(references[i], "document_id", "unknown"),
             type        |-> Get(references[i], "type", "DOCUMENT"),
             description |-> Get(references[i], "description", JsonNone)]]

InitApi ==
    /\ cls = IdleCls
    /\ IdleFan
    /\ IdleFaq
    /\ IdleMilvus
    /\ IdlePool
    /\ connected \in BOOLEAN
    /\ req \in [mode : {"run"}, question : ApiQuestions, history : {<<>>}]
    /\ state = NoDict
    /\ pc = "idle"
    /\ ran = <<>>
    /\ obs = {}
    /\ returned = NoDict
    /\ api \in [pc : {"request"}, endpoint : {"chat", "stream_chat"},
                workflow_ready : BOOLEAN, events : {<<>>}, sent : {0},
                response : {NoDict}]

\* both handlers: rag_workflow is None when the startup failed
Unavailable ==
    /\ api.pc = "request"
    /\ ~api.workflow_ready
    /\ api' = [api EXCEPT
                  !.pc = "closed",
                  !.response =
                      [status_code |-> 503,
                       detail |-> "Workflow not initialized. Please check server logs."]]
    /\ UNCHANGED <<cls, connected, req, state, pc, ran, obs, returned, fan, faqcall, milvus, pool>>

\* rag_workflow.run(question, history): the workflow starts on its initial
\* state
CallRun ==
    /\ state' = _create_initial_state(req.question, req.history)
    /\ pc' = "parallel_execution"

\* chat(): the workflow is run with the question of the request
Chat ==
    /\ api.pc = "request"
    /\ api.endpoint = "chat"
    /\ api.workflow_ready
    /\ CallRun
    /\ api' = [api EXCEPT !.pc = "chat_run"]
    /\ UNCHANGED <<cls, connected, req, ran, obs, returned, fan, faqcall, milvus, pool>>

\* chat(): the ChatResponse built from the result of run()
ChatRespond ==
    /\ api.pc = "chat_run"
    /\ pc = "done"
    /\ api' = [api EXCEPT
                  !.pc = "closed",
                  !.response =
                      [status_code |-> 200,
                       answer      |-> Get(returned, "answer",
                                           <<"Loi", "xu", "ly", "cau", "hoi">>),
                       references  |-> ApiReferences(returned),
                       status      |-> Get(returned, "status", "ERROR")]]
    /\ UNCHANGED <<cls, connected, req, state, pc, ran, obs, returned, fan, faqcall, milvus, pool>>

\* stream_chat(): the StreamingResponse over generate_stream_response
StreamChat ==
    /\ api.pc = "request"
    /\ api.endpoint = "stream_chat"
    /\ api.workflow_ready
    /\ api' = [api EXCEPT !.pc = "stream_start",
                          !.response = [status_code |-> 200,
                                        media_type  |-> "text/event-stream"]]
    /\ UNCHANGED <<cls, connected, req, state, pc, ran, obs, returned, fan, faqcall, milvus, pool>>

\* generate_stream_response: the initial event
StreamStart ==
    /\ api.pc = "stream_start"
    /\ api' = [api EXCEPT
                  !.pc = "stream_steps",
                  !.events = Append(@, [type |-> "start",
                                        message |-> "Processing your question..."])]
    /\ UNCHANGED <<cls, connected, req, state, pc, ran, obs, returned, fan, faqcall, milvus, pool>>

\* generate_stream_response: one event of the loop over steps
StreamStep ==
    /\ api.pc = "stream_steps"
    /\ Len(api.events) <= Len(Steps)
    /\ api' = [api EXCEPT !.events = Append(@, Steps[Len(api.events)])]
    /\ UNCHANGED <<cls, connected, req, state, pc, ran, obs, returned, fan, faqcall, milvus, pool>>

\* generate_stream_response: the workflow is run after the last step event
StreamRun ==
    /\ api.pc = "stream_steps"
    /\ Len(api.events) > Len(Steps)
    /\ CallRun
    /\ api' = [api EXCEPT !.pc = "stream_run"]
    /\ UNCHANGED <<cls, connected, req, ran, obs, returned, fan, faqcall, milvus, pool>>

\* the words of the answer that is streamed
StreamWords == Split(Get(returned, "answer", <<"Loi", "xu", "ly", "cau", "hoi">>))

\* generate_stream_response: the loop over the words up to its next yield,
\* which sends the whole text so far (current_text.strip())
StreamContent ==
    /\ api.pc = "stream_run"
    /\ pc = "done"
    /\ api.sent < Len(StreamWords)
    /\ LET yields == {k \in (api.sent + 1)..Len(StreamWords) :
                         k % ChunkEvery = 0 \/ k = Len(StreamWords)}
           i == CHOOSE k \in yields : \A j \in yields : k <= j
       IN  api' = [api EXCEPT
                      !.sent = i,
                      !.events = Append(@, [type    |-> "content",
                                            content |-> SubSeq(StreamWords, 1, i)])]
    /\ UNCHANGED <<cls, connected, req, state, pc, ran, obs, returned, fan, faqcall, milvus, pool>>

\* generate_stream_response: the references event after the loop
StreamReferences ==
    /\ api.pc = "stream_run"
    /\ pc = "done"
    /\ api.sent = Len(StreamWords)
    /\ api' = [api EXCEPT
                  !.pc = "stream_references",
                  !.events = Append(@, [type       |-> "references",
                                        references |-> ApiReferences(returned)])]
    /\ UNCHANGED <<cls, connected, req, state, pc, ran, obs, returned, fan, faqcall, milvus, pool>>

\* generate_stream_response: the completion event
StreamDone ==
    /\ api.pc = "stream_references"
    /\ api' = [api EXCEPT
                  !.pc = "closed",
                  !.events = Append(@, [type   |-> "done",
                                        status |-> Get(returned, "status", "SUCCESS")])]
    /\ UNCHANGED <<cls, connected, req, state, pc, ran, obs, returned, fan, faqcall, milvus, pool>>

NextApi ==
    \/ Unavailable
    \/ Chat
    \/ ChatRespond
    \/ StreamChat
    \/ StreamStart
    \/ StreamStep
    \/ StreamRun
    \/ StreamContent
    \/ StreamReferences
    \/ StreamDone
    \/ ParallelExecution
    \/ DecisionRouter
    \/ RouteAfterDecision
    \/ GraderNode
    \/ RouteNextAgent
    \/ GeneratorNode
    \/ NotEnoughInfoNode
    \/ ChatterNode
    \/ ReporterNode
    \/ OtherNode
    \/ RunReturn

SpecApi == InitApi /\ [][NextApi]_vars

(***************************************************************************)
(* Claims on the HTTP layer                                                *)
(***************************************************************************)
\* the stream of the request is complete
StreamClosed == api.pc = "closed" /\ api.endpoint = "stream_chat" /\ api.workflow_ready

\* the events of the stream that carry answer text
AnswerEvents == SelectSeq(api.events, LAMBDA e : e.type \in {"chunk", "content"})

\* the text a + b of two texts: the last word of a and the first word of b
\* become one word
ConcatText(a, b) ==
    IF a = <<>> THEN b
    ELSE IF b = <<>> THEN a
    ELSE SubSeq(a, 1, Len(a) - 1) \o <<a[Len(a)] \o b[1]>> \o Tail(b)

RECURSIVE ConcatContents(_)
\* the content fields of the events, concatenated in emission order
ConcatContents(events) ==
    IF events = <<>> THEN <<>>
    ELSE ConcatText(events[1].content, ConcatContents(Tail(events)))

RECURSIVE RStrip(_)
\* a text without its trailing whitespace
RStrip(text) ==
    IF text = <<>> THEN <<>>
    ELSE IF text[Len(text)] \in {"", " ", "\n"}
    THEN RStrip(SubSeq(text, 1, Len(text) - 1))
    ELSE text

\* C18: the content fields of the answer-carrying events of a complete
\* stream, concatenated in emission order, are the answer run() returned
\* for the request, up to trailing whitespace.
C18_StreamConcatIsAnswer ==
    StreamClosed =>
        RStrip(ConcatContents(AnswerEvents)) = RStrip(returned.answer)

EventTypes == [i \in DOMAIN api.events |-> api.events[i].type]

\* the places of the events of one of the types
Places(types) == {i \in DOMAIN api.events : api.events[i].type \in types}

ChunkTypes == {"chunk", "content"}

EndTypes == {"end", "done"}

\* run() reported that the generation failed
GenerationFailed == pc = "done" /\ returned.status = "ERROR"

\* C19: an SSE stream starts with its only start event; no event follows an
\* end or error event; a complete stream ends with an end event carrying
\* the status or with an error event, with an error event if the generation
\* failed; a stream ending with status SUCCESS has at least one chunk event
\* and exactly one references event, after all chunk events and before the
\* end event.  (The chunk and end events may be typed content and done.)
C19_StreamWellFormed ==
    api.endpoint = "stream_chat" =>
        /\ api.events # <<>> =>
              /\ api.events[1].type = "start"
              /\ Places({"start"}) = {1}
        /\ \A i \in Places(EndTypes \cup {"error"}) : i = Len(api.events)
        /\ StreamClosed =>
              LET last == api.events[Len(api.events)]
              IN  /\ last.type \in EndTypes \cup {"error"}
                  /\ last.type \in EndTypes => last.status = returned.status
                  /\ GenerationFailed => last.type = "error"
                  /\ (last.type \in EndTypes /\ last.status = "SUCCESS") =>
                        /\ Places(ChunkTypes) # {}
                        /\ Cardinality(Places({"references"})) = 1
                        /\ \A i \in Places(ChunkTypes), j \in Places({"references"}) :
                              i < j

\* C20: a request whose question is empty, shorter than 3 characters or
\* longer than 1000 characters is rejected with a client error before the
\* workflow starts (no fan-out branch, no LLM call); a question of 3
\* characters is accepted and answered.
C20_InvalidQuestionRejected ==
    api.workflow_ready =>
        IF validate_question(req.question).valid
        THEN api.pc = "closed" => api.response.status_code = 200
        ELSE /\ pc = "idle"
             /\ ran = <<>>
             /\ api.pc = "closed" => api.response.status_code \in 400..499

(***************************************************************************)
(* Claims on the response of run() and on the responders, under Spec       *)
(***************************************************************************)
ResponseStatuses == {"SUCCESS", "ERROR", "NOT_FOUND", "INSUFFICIENT"}

\* run() returned for the request
RunDone == pc = "done" /\ Running("run")

\* C21: whatever fails in the vector store, the reranker and the LLM, run()
\* returns a dict with a non-empty answer text, a references list and a
\* status among SUCCESS, ERROR, NOT_FOUND and INSUFFICIENT.
C21_ResponseWellFormed ==
    RunDone =>
        /\ DOMAIN returned = {"answer", "references", "status"}
        /\ returned.answer # <<>>
        /\ returned.references \in Seq(Range(returned.references))
        /\ returned.status \in ResponseStatuses

\* the kinds of the references returned, in order
ReferenceKinds == [i \in DOMAIN returned.references |-> returned.references[i].type]

\* the request was answered by the node `node`
AnsweredBy(node) == pc = "done" /\ ran # <<>> /\ ran[Len(ran)] = node

\* C22: for every question and history, the Chatter responder returns
\* status SUCCESS with exactly one reference of kind SUPPORT, the Reporter
\* exactly one of kind SYSTEM, Not-Enough-Info exactly one of kind
\* GENERAL_KNOWLEDGE, and Other no reference.
C22_ResponderReferences ==
    /\ AnsweredBy("chatter") =>
          returned.status = "SUCCESS" /\ ReferenceKinds = <<"SUPPORT">>
    /\ AnsweredBy("reporter") =>
          returned.status = "SUCCESS" /\ ReferenceKinds = <<"SYSTEM">>
    /\ AnsweredBy("not_enough_info") =>
          returned.status = "SUCCESS" /\ ReferenceKinds = <<"GENERAL_KNOWLEDGE">>
    /\ AnsweredBy("other") =>
          returned.status = "SUCCESS" /\ ReferenceKinds = <<>>

(***************************************************************************)
(* SpecRerank: one call of rerank_faq (tools/vector_search.py) on a list   *)
(* of candidates with distinct ids, in any order, with the scores the      *)
(* cross-encoder gives the three variants of each.                         *)
(***************************************************************************)
RerankCandidates ==
    {hits \in UNION {[1..k -> Faqs] : k \in 0..MaxFaqs} :
        \A i, j \in DOMAIN hits : hits[i].faq_id = hits[j].faq_id => i = j}

InitRerank ==
    /\ cls = IdleCls
    /\ connected = TRUE
    /\ IdleRequest
    /\ IdleFan
    /\ IdleApi
    /\ IdleMilvus
    /\ IdlePool
    /\ \E hits \in RerankCandidates, predictOk \in BOOLEAN :
       \E scores \in [DOMAIN hits -> FaqVariantScores] :
          faqcall = [pc          |-> "call",
                     faq_results |-> hits,
                     predictOk   |-> predictOk,
                     scores      |-> scores,
                     out         |-> NoDict]

RerankFaq ==
    /\ faqcall.pc = "call"
    /\ faqcall' = [faqcall EXCEPT
                      !.pc = "returned",
                      !.out = rerank_faq(faqcall.faq_results, reranker_loaded,
                                         faqcall.predictOk, faqcall.scores)]
    /\ UNCHANGED <<cls, connected, req, state, pc, ran, obs, returned, fan, api, milvus, pool>>

NextRerank == RerankFaq

SpecRerank == InitRerank /\ [][NextRerank]_vars

\* the orderings of 1..n
Orderings(n) ==
    {p \in [1..n -> 1..n] : \A i, j \in 1..n : p[i] = p[j] => i = j}

\* the ids of a ranking, in order
FaqIds(ranking) == [i \in DOMAIN ranking |-> ranking[i].faq_id]

\* rerank_faq returned a ranking
Ranked == faqcall.pc = "returned" /\ ~faqcall.out.raised

\* the weighted sum of the three variant scores, with the bonus exactly
\* when all three exceed the consistency floor
WeightedScore(v) ==
    IF v[1] > FAQ_CONSISTENCY_THRESHOLD /\ v[2] > FAQ_CONSISTENCY_THRESHOLD
       /\ v[3] > FAQ_CONSISTENCY_THRESHOLD
    THEN ((50 * v[1] + 30 * v[2] + 20 * v[3]) * 11) \div 10
    ELSE 50 * v[1] + 30 * v[2] + 20 * v[3]

\* C23: the ranking of rerank_faq is the same for every permutation of the
\* candidate list (candidates of equal fused score included), and every
\* fused score is the weighted sum of the three variant scores, multiplied
\* by the bonus exactly when all three exceed the consistency floor.
C23_RankingIgnoresInputOrder ==
    Ranked =>
        /\ \A i \in DOMAIN faqcall.out.ret :
              faqcall.out.ret[i].rerank_score
                  = WeightedScore(faqcall.out.ret[i].rerank_details)
        /\ \A p \in Orderings(Len(faqcall.faq_results)) :
              LET permuted == rerank_faq(
                      [i \in DOMAIN p |-> faqcall.faq_results[p[i]]],
                      reranker_loaded, faqcall.predictOk,
                      [i \in DOMAIN p |-> faqcall.scores[p[i]]])
              IN  FaqIds(permuted.ret) = FaqIds(faqcall.out.ret)

(***************************************************************************)
(* SpecMilvus: the process-wide MilvusClient (database/milvus_client.py)   *)
(* over a sequence of uses: liveness probes, classifications, document    *)
(* searches and retrievals, while the vector store becomes unreachable and *)
(* reachable again.  A vector is a sequence of integers.                   *)
(***************************************************************************)
MaxDim == 3

VectorComponents == {0, 1}

\* what embedding_model.encode_single can return: a one-dimensional vector
QueryVectors == UNION {[1..n -> VectorComponents] : n \in 1..MaxDim}

Zeros(n) == [i \in 1..n |-> 0]

\* pad_vector_to_dimension, for a one-dimensional vector
pad_vector_to_dimension(vector, target_dim) ==
    LET current_dim == Len(vector)
    IN  IF current_dim >= target_dim THEN SubSeq(vector, 1, target_dim)
        ELSE vector \o Zeros(target_dim - current_dim)

\* _get_collection_dimension: the declared dim, 0 when the lookup raises
_get_collection_dimension(declared, lookupOk) ==
    IF lookupOk THEN declared ELSE 0

\* safe_encode_and_fix_dimension, after the query has been encoded
safe_encode_and_fix_dimension(query_vector, expected_dim) ==
    IF expected_dim > 0 /\ Len(query_vector) # expected_dim
    THEN pad_vector_to_dimension(query_vector, expected_dim)
    ELSE query_vector

\* the mutant of _adjust_vector_dimension: pads, never truncates
AdjustPadOnly(vector, target_dim) ==
    IF Len(vector) < target_dim
    THEN vector \o Zeros(target_dim - Len(vector))
    ELSE vector

\* _adjust_vector_dimension, for a one-dimensional vector
_adjust_vector_dimension(vector, target_dim) ==
    LET current_dim == Len(vector)
    IN  IF current_dim < target_dim
        THEN vector \o Zeros(target_dim - current_dim)
        ELSE IF current_dim > target_dim
        THEN SubSeq(vector, 1, target_dim)
        ELSE vector

\* _validate_vector_dimension with auto_fix = True
_validate_vector_dimension(vector, expected_dim) ==
    IF expected_dim = 0 THEN vector
    ELSE IF Len(vector) # expected_dim
    THEN _adjust_vector_dimension(vector, expected_dim)
    ELSE vector

\* the tool search_documents up to the call of collection.search: the
\* vector handed to the vector store, or the exception raised before
SearchDocumentsCall(flag, probeOk, query_vector, declared, fixOk, validateOk) ==
    LET fixed == safe_encode_and_fix_dimension(
                     query_vector, _get_collection_dimension(declared, fixOk))
        probe == check_connection(flag, probeOk)
    IN  IF ~probe.live
        THEN [raised |-> TRUE, error |-> "Milvus connection lost",
              handed |-> <<>>, searched |-> FALSE]
        ELSE [raised |-> FALSE, error |-> "",
              handed |-> _validate_vector_dimension(
                             fixed, _get_collection_dimension(declared, validateOk)),
              searched |-> TRUE]

InitMilvus ==
    /\ cls = IdleCls
    /\ IdleRequest
    /\ IdleFan
    /\ IdleFaq
    /\ IdleApi
    /\ IdlePool
    /\ \E reachable \in BOOLEAN, declared \in 1..MaxDim :
          \* _connect at construction
          /\ connected = reachable
          /\ milvus = [reachable |-> reachable, declared |-> declared,
                       last |-> NoDict]

\* the vector store goes away or comes back
StoreChange ==
    /\ milvus' = [milvus EXCEPT !.reachable = ~milvus.reachable]
    /\ UNCHANGED <<cls, connected, req, state, pc, ran, obs, returned, fan,
                   faqcall, api, pool>>

\* milvus_client.check_connection, called by the health endpoint
Probe ==
    /\ LET probe == check_connection(connected, milvus.reachable)
       IN  /\ connected' = probe.flag
           /\ milvus' = [milvus EXCEPT !.last =
                            [op |-> "probe", contacted |-> connected,
                             live |-> probe.live]]
    /\ UNCHANGED <<cls, req, state, pc, ran, obs, returned, fan, faqcall, api, pool>>

\* SupervisorAgent.classify_request of one request
ClassifyProbe ==
    /\ \E q \in ShortQuestions, reply \in ClassifyReplies :
          LET probe == check_connection(connected, milvus.reachable)
              r     == classify_request(q, <<>>, connected, milvus.reachable,
                                        LLMDown, reply)
          IN  /\ connected' = probe.flag
              /\ milvus' = [milvus EXCEPT !.last =
                               [op |-> "classify", contacted |-> connected,
                                live |-> probe.live, agent |-> r.ret.agent]]
    /\ UNCHANGED <<cls, req, state, pc, ran, obs, returned, fan, faqcall, api, pool>>

\* the tool search_documents: encode, fix the dimension, search
SearchDocuments ==
    /\ \E v \in QueryVectors, fixOk \in BOOLEAN, validateOk \in BOOLEAN :
          \* a lookup succeeds only when the store is reachable
          /\ (fixOk \/ validateOk) => milvus.reachable
          /\ LET probe == check_connection(connected, milvus.reachable)
                 out   == SearchDocumentsCall(connected, milvus.reachable, v,
                                              milvus.declared, fixOk, validateOk)
             IN  /\ connected' = probe.flag
                 /\ milvus' = [milvus EXCEPT !.last =
                                  [op |-> "search", contacted |-> connected,
                                   live |-> probe.live, query_vector |-> v,
                                   fixOk |-> fixOk, validateOk |-> validateOk,
                                   raised |-> out.raised, error |-> out.error,
                                   handed |-> out.handed,
                                   searched |-> out.searched]]
    /\ UNCHANGED <<cls, req, state, pc, ran, obs, returned, fan, faqcall, api, pool>>

\* RetrieverAgent.process: the search of the tool, then the filter on the
\* similarity floor
Retrieve ==
    /\ \E hits \in DocumentHits, searchOk \in BOOLEAN :
          /\ searchOk => milvus.reachable
          /\ LET probe  == check_connection(connected, milvus.reachable)
                 search == vector_search(probe.live, searchOk, hits)
             IN  /\ connected' = probe.flag
                 /\ milvus' = [milvus EXCEPT !.last =
                                  [op |-> "retrieve", contacted |-> connected,
                                   live |-> probe.live, search |-> search,
                                   out |-> RetrieverProcess(search)]]
    /\ UNCHANGED <<cls, req, state, pc, ran, obs, returned, fan, faqcall, api, pool>>

NextMilvus ==
    StoreChange \/ Probe \/ ClassifyProbe \/ SearchDocuments \/ Retrieve

SpecMilvus == InitMilvus /\ [][NextMilvus]_vars

\* the last use was a search that handed a vector to the vector store
Handed == milvus.last # NoDict /\ milvus.last.op = "search" /\ milvus.last.searched

\* the adjustment of v to dimension d, as the claim describes it
Adjusted(v, d) ==
    IF Len(v) > d THEN SubSeq(v, 1, d)
    ELSE IF Len(v) < d THEN v \o Zeros(d - Len(v))
    ELSE v

DimensionKnown == milvus.last.fixOk \/ milvus.last.validateOk

NextUse == milvus'.last

\* C26: the connection flag is only ever lowered: once it is down, it stays
\* down, every later probe returns not-live without contacting the vector
\* store, every later request is classified REPORTER and every later search
\* raises the connection-lost error, also when the store is reachable again.
C26_FlagOnlyLowered ==
    [][~connected =>
          /\ ~connected'
          /\ NextUse # milvus.last =>
                /\ ~NextUse.live
                /\ ~NextUse.contacted
                /\ NextUse.op = "classify" => NextUse.agent = "REPORTER"
                /\ NextUse.op = "search" =>
                      /\ NextUse.raised
                      /\ NextUse.error = "Milvus connection lost"
                      /\ ~NextUse.searched]_vars

C26_Witness ==
    /\ ~connected
    /\ milvus.reachable
    /\ milvus.last # NoDict
    /\ milvus.last.op = "search"
    /\ ~milvus.last.contacted
    /\ milvus.last.raised

\* the documents the Grader qualified
QualifiedDocuments == Get(state, "qualified_documents", <<>>)

Graded == "grader" \in Range(ran)

NoPassagesAnswer == GeneratorProcess(<<>>, <<>>, LLMDown).answer

Retrieved == milvus.last # NoDict /\ milvus.last.op = "retrieve"

AboveFloor(candidates) ==
    SelectSeq(candidates, LAMBDA doc : doc.similarity_score > SIMILARITY_THRESHOLD)

\* C29: the Document Retriever reports ERROR with no documents only when the
\* search raised or returned no candidate; when the search returned at
\* least one candidate, whatever its text, the Retriever returns a non-empty
\* list: the candidates above the similarity floor, or all of them when
\* none is above it.
C29_CandidatesAlwaysForwarded ==
    Retrieved =>
        LET search == milvus.last.search
            out    == milvus.last.out
        IN  /\ (out.status = "ERROR" /\ out.documents = <<>>) =>
                   (search.raised \/ search.ret = <<>>)
            /\ (~search.raised /\ search.ret # <<>>) =>
                   /\ out.documents # <<>>
                   /\ out.documents = IF AboveFloor(search.ret) # <<>>
                                      THEN AboveFloor(search.ret)
                                      ELSE search.ret

\* the state a responder node leaves when the LLM answers `reply`
Responded(node, reply) ==
    CASE node = "generator"       -> _generator_node(state, reply)
      [] node = "not_enough_info" -> _not_enough_info_node(state, reply)
      [] node = "other"           -> _other_node(state, reply)
      [] node = "chatter"         -> _chatter_node(state, reply)

LLMResponders == {"generator", "not_enough_info", "other", "chatter"}

\* the step of a responder node whose LLM call failed
LLMFailedStep ==
    /\ pc \in LLMResponders
    /\ pc' = "__end__"
    /\ state' = Responded(pc, LLMDown)

FailPrefix == <<"Loi", "xu", "ly:">>

\* C30: invoke never raises; a failed LLM call returns a non-empty text that
\* begins with "Loi xu ly".  When the LLM is unreachable the Generator, the
\* Not-Enough-Info and the Other responder return SUCCESS with that text as
\* the answer, and no responder has status ERROR because of the failure
\* (a responder that reports ERROR does so whatever the LLM replies).
C30_LLMFailureIsAnswered ==
    [][LLMFailedStep =>
          /\ invoke(LLMDown) # <<>>
          /\ SubSeq(invoke(LLMDown), 1, Len(FailPrefix)) = FailPrefix
          /\ pc \in {"generator", "not_enough_info", "other"} =>
                /\ state'.status = "SUCCESS"
                /\ state'.answer = invoke(LLMDown)
          /\ state'.status = "ERROR" =>
                \A reply \in AnswerReplies :
                    Responded(pc, reply).status = "ERROR"]_vars

C30_Witness ==
    /\ pc = "done"
    /\ Running("run")
    /\ ran[Len(ran)] = "generator"
    /\ returned.status = "SUCCESS"
    /\ returned.answer = FailText

(***************************************************************************)
(* SpecPool: the ThreadPoolExecutor of the RAGWorkflow over successive     *)
(* requests.  The API handlers call run() on the event loop, one request   *)
(* after the other; the executor and its work queue live as long as the    *)
(* process.  A task is <<request, branch>>.  A branch may return at any    *)
(* time or never; the time a wait has lasted advances by Tick.             *)
(***************************************************************************)
MaxRequests == 2

max_workers == 3

Tasks == (1..MaxRequests) \X Branches

SubmitOrder == <<"supervisor", "faq", "retriever">>

\* the mutant of HasIdleWorker: a pool without a bound
AlwaysIdleWorker(running) == TRUE

\* the executor starts a queued task when fewer than max_workers run
HasIdleWorker(running) == Cardinality(running) < max_workers

InitPool ==
    /\ cls = IdleCls
    /\ IdleRequest
    /\ IdleFan
    /\ IdleFaq
    /\ IdleApi
    /\ IdleMilvus
    /\ connected = TRUE
    /\ pool = [request   |-> 1,
               at        |-> "submit",
               waited    |-> 0,
               queue     |-> <<>>,
               running   |-> {},
               future    |-> [t \in {} |-> NoDict],
               collected |-> [r \in 1..MaxRequests |-> [b \in {} |-> NoDict]],
               expired   |-> {}]

\* the three executor.submit calls of _parallel_execution_node
Submit ==
    /\ pool.at = "submit"
    /\ pool' = [pool EXCEPT
                   !.queue = @ \o [i \in 1..3 |-> <<pool.request, SubmitOrder[i]>>],
                   !.at = "wait_supervisor",
                   !.waited = 0]
    /\ UNCHANGED <<cls, connected, req, state, pc, ran, obs, returned, fan,
                   faqcall, api, milvus>>

\* an idle worker takes the oldest queued task
StartTask ==
    /\ pool.queue # <<>>
    /\ HasIdleWorker(pool.running)
    /\ pool' = [pool EXCEPT !.queue = Tail(@),
                            !.running = @ \cup {Head(pool.queue)}]
    /\ UNCHANGED <<cls, connected, req, state, pc, ran, obs, returned, fan,
                   faqcall, api, milvus>>

\* what a branch returns in this specification: one result per branch
PoolResults(branch) ==
    {CHOOSE value \in FanResults(branch) : Get(value, "status", "") # "ERROR"}

\* a running branch returns: its future is set and its worker is free
FinishTask(task) ==
    /\ task \in pool.running
    /\ \E value \in PoolResults(task[2]) :
          pool' = [pool EXCEPT !.running = @ \ {task},
                               !.future = (task :> value) @@ @]
    /\ UNCHANGED <<cls, connected, req, state, pc, ran, obs, returned, fan,
                   faqcall, api, milvus>>

PoolWaiting(branch) == pool.at = "wait_" \o branch

WaitedTask(branch) == <<pool.request, branch>>

\* _get_result_with_timeout returns the result of the future
PoolCollectResult(branch) ==
    /\ PoolWaiting(branch)
    /\ WaitedTask(branch) \in DOMAIN pool.future
    /\ pool' = [pool EXCEPT
                   !.collected[pool.request] =
                       (branch :> pool.future[WaitedTask(branch)]) @@ @,
                   !.at = AfterWait(branch),
                   !.waited = 0]
    /\ UNCHANGED <<cls, connected, req, state, pc, ran, obs, returned, fan,
                   faqcall, api, milvus>>

\* _get_result_with_timeout catches FutureTimeoutError and returns default;
\* the future is not cancelled
PoolCollectDefault(branch) ==
    /\ PoolWaiting(branch)
    /\ WaitedTask(branch) \notin DOMAIN pool.future
    /\ pool.waited >= TimeoutOf(branch)
    /\ pool' = [pool EXCEPT
                   !.collected[pool.request] = (branch :> DefaultOf(branch)) @@ @,
                   !.expired = @ \cup {WaitedTask(branch)},
                   !.at = AfterWait(branch),
                   !.waited = 0]
    /\ UNCHANGED <<cls, connected, req, state, pc, ran, obs, returned, fan,
                   faqcall, api, milvus>>

\* time passes while future.result(timeout) blocks
PoolAdvance ==
    /\ \E branch \in Branches :
          /\ PoolWaiting(branch)
          /\ WaitedTask(branch) \notin DOMAIN pool.future
          /\ pool.waited < TimeoutOf(branch)
    /\ pool' = [pool EXCEPT !.waited = @ + Tick]
    /\ UNCHANGED <<cls, connected, req, state, pc, ran, obs, returned, fan,
                   faqcall, api, milvus>>

\* the collected values are written into the state and control goes on to
\* the decision router; the next request is then served
PoolWriteState ==
    /\ pool.at = "write_state"
    /\ pool' = [pool EXCEPT
                   !.request = IF pool.request < MaxRequests THEN @ + 1 ELSE @,
                   !.at = IF pool.request < MaxRequests THEN "submit" ELSE "served"]
    /\ UNCHANGED <<cls, connected, req, state, pc, ran, obs, returned, fan,
                   faqcall, api, milvus>>

NextPool ==
    \/ Submit
    \/ StartTask
    \/ \E task \in Tasks : FinishTask(task)
    \/ \E b \in Branches : PoolCollectResult(b)
    \/ \E b \in Branches : PoolCollectDefault(b)
    \/ PoolAdvance
    \/ PoolWriteState

SpecPool == InitPool /\ [][NextPool]_vars

\* the fan-out stage of request r is over
Served(r) == r < pool.request \/ (r = pool.request /\ pool.at = "served")

\* the branches of requests before r whose wait expired and which still
\* occupy a worker
Occupying(r) == {t \in pool.running \cap pool.expired : t[1] < r}

\* a branch that has got a worker
Started(task) == task \in pool.running \/ task \in DOMAIN pool.future

\* C27: the pool is shared by all requests and runs at most three branch
\* tasks at a time; a branch whose wait expired is not cancelled, it leaves
\* its worker only by returning.  While three such branches occupy the pool
\* no branch of a later request starts, and that request collects the three
\* fallback values once its waits have expired.
C27_SaturatedPoolStarvesLaterRequests ==
    /\ [](/\ Cardinality(pool.running) <= max_workers
          /\ \A r \in 1..MaxRequests :
                Cardinality(Occupying(r)) = max_workers =>
                    /\ \A b \in Branches : ~Started(<<r, b>>)
                    /\ Served(r) =>
                          \A b \in Branches :
                              pool.collected[r][b] = DefaultOf(b))
    /\ [][\A t \in pool.running :
             t \notin pool'.running => t \in DOMAIN pool'.future]_vars

C27_Witness ==
    /\ Served(2)
    /\ Occupying(2) = {1} \X Branches
    /\ \A b \in Branches :
          /\ pool.collected[2][b] = DefaultOf(b)
          /\ \E i \in DOMAIN pool.queue : pool.queue[i] = <<2, b>>

(***************************************************************************)
(* SpecPoolLive: SpecPool with the request thread making progress.  The    *)
(* thread is never blocked for longer than a timeout: its submits, its     *)
(* waits (time passes while future.result blocks) and its state write are  *)
(* weakly fair.  Nothing forces a branch to get a worker or to return.     *)
(***************************************************************************)
SpecPoolLive ==
    /\ SpecPool
    /\ WF_vars(Submit)
    /\ WF_vars(PoolAdvance)
    /\ \A b \in Branches : WF_vars(PoolCollectResult(b))
    /\ \A b \in Branches : WF_vars(PoolCollectDefault(b))
    /\ WF_vars(PoolWriteState)

\* no branch of request r has returned
NoneReturned(r) == \A b \in Branches : <<r, b>> \notin DOMAIN pool.future

\* C28: the fan-out stage of every request eventually completes, also when
\* none of its branches ever returns or ever gets a worker: the three waits
\* expire one after the other and control goes on to the decision router
\* with the three fallback values.
C28_FanoutTerminates ==
    /\ \A r \in 1..MaxRequests : <>Served(r)
    /\ [](\A r \in 1..MaxRequests :
             Served(r) /\ NoneReturned(r) =>
                 \A b \in Branches :
                     /\ <<r, b>> \in pool.expired
                     /\ pool.collected[r][b] = DefaultOf(b))

C28_Witness ==
    /\ Served(1)
    /\ \A b \in Branches :
          /\ ~Started(<<1, b>>)
          /\ pool.collected[1][b] = DefaultOf(b)

====
